---- MODULE Spec2Model ----
(***************************************************************************)
(* A model of the orchestration core of gnark (vocdoni fork):              *)
(*   - the KZG reference-string cache of package test (NewKZGSRS,          *)
(*     getCachedSRS, newKZGSRS),                                           *)
(*   - the solver configuration of package solver (NewConfig and its       *)
(*     options WithHints, OverrideHint, WithLogger),                       *)
(*   - the once-only registration of the std hints (RegisterHints),        *)
(*   - the dispatch of package plonk (Setup, Prove, Verify and the         *)
(*     constructors of empty objects),                                     *)
(*   - the Assert helper of package test (compile and its cache,           *)
(*     ProverSucceeded, ProverFailed, Fuzz),                               *)
(*   - the cofactor clearing of eddsa.Verify,                              *)
(*   - Assert.compile called by two goroutines on Asserts that share one   *)
(*     cache.                                                              *)
(* Each part has its own next-state relation and specification; the        *)
(* variables of the other parts stay at their initial values.              *)
(***************************************************************************)
EXTENDS Integers, Sequences, FiniteSets, TLC

VARIABLES
    \* ---- package test: the SRS cache ----
    srsCache,       \* var srsCache map[ecc.ID]kzg.SRS
    lock,           \* var lock sync.Mutex: the thread holding it, or NoThread
    pc,             \* per thread: where it is inside NewKZGSRS
    ccs,            \* per thread: the constraint system passed to NewKZGSRS
    srs,            \* per thread: the SRS held in the local srs / returned
    err,            \* per thread: the error returned
    nextSRS,        \* allocation counter: identity of the next SRS object
    calls,          \* number of NewKZGSRS calls made so far
    aborted,        \* the process ended by an unrecovered panic
    cachedReturns,  \* history: (curve, SRS) pairs returned by getCachedSRS
    generated,      \* history: SRS objects created inside getCachedSRS
    genFailed,      \* history: curves for which generation in getCachedSRS failed
    \* ---- package solver: the hint registry and NewConfig ----
    maps,           \* the heap of map[HintID]HintFn objects, by reference
    cfgPc,          \* where NewConfig is: "idle" (not running) or "loop"
    caller,         \* NewConfig: the holder that called it
    opt,            \* NewConfig: the local opt (a Config)
    nHints,         \* WithHints: hints of hintFunctions the loop has ranged over
    nApplied,       \* NewConfig: the number of options of opts applied so far
    configs,        \* per holder: the Config NewConfig returned to it
    cfgErr,         \* the error the last NewConfig returned
    logged,         \* logger.Logger(): the number of duplicate-hint warnings the
                    \* last call of a WithHints option logged, per hint id
    overridden,     \* history: per hint id, the function of the last
                    \* OverrideHint option the running NewConfig applied
    hinted,         \* history: per hint id, the function of the first hint
                    \* the WithHints options of the running NewConfig ranged over
    \* ---- package std: RegisterHints ----
    onceDone,       \* registerOnce: the done flag of the sync.Once
    onceM,          \* registerOnce: the thread holding the mutex of the sync.Once
    rpc,            \* per thread: where it is inside RegisterHints
    bodyPos,        \* per thread: the statement of registerHints it is at
    regCalls,       \* number of RegisterHints calls made so far
    bodyRuns,       \* history: how many times registerHints was entered
    bodyEnds,       \* history: how many times registerHints ran to its end
    \* ---- package plonk: the dispatch ----
    plkOp,          \* the function of package plonk called last
    plkArgs,        \* the concrete types of its arguments
    plkImpl,        \* what the curve-typed implementation it called returned
    plkOut,         \* how the call ended: what it returned, or its panic
    plkCalls,       \* number of calls of package plonk made so far
    \* ---- package test: the Assert helper ----
    tAsserts,       \* the Assert objects made, in order
    tCompiled,      \* the heap of maps the Asserts hold in compiled, by reference
    tNext,          \* allocation counter: identity of the next constraint system
    tRuns,          \* history: number of runs of frontend.Compile
    tCalls,         \* number of calls of Assert.compile made so far
    tLast,          \* the last call of Assert.compile and how it ended
    tDone,          \* history: the calls of Assert.compile that returned a system
    tFailed,        \* history: the (map, key) of the calls that returned an error
    \* ---- package test: ProverSucceeded, ProverFailed, Fuzz ----
    pTest,          \* the helper the test called, or NIL
    pAssert,        \* the Assert it was called on
    pCircuit,       \* the circuit it was given
    pSecret,        \* whether the circuit has a secret input
    pBackends,      \* opt.backends
    pFuzzing,       \* opt.fuzzing
    pParent,        \* where the helper is: in its loop, in Fuzz, returned
    pIdx,           \* the loop of the helper: the index of the pair it is at
    pPc,            \* per pair: where its subtest is
    pTrace,         \* per pair, history: the stages its subtest ran
    fCount,         \* Fuzz: fuzzCount
    fIdx,           \* the loop of Fuzz: the index of the pair it is at
    fPc,            \* Fuzz, per pair: where its subtest is
    fSamples,       \* the subtest of Fuzz run last: the calls of fuzzer made
    fLast,          \* the verdicts of the last call of fuzzer
    fLog,           \* the subtest of Fuzz run last: what assert.Log was given
    \* ---- package eddsa: Verify ----
    edPc,           \* where Verify is
    edCofactor,     \* curve.Params().Cofactor
    edDiff,         \* history: Q as line 71 leaves it
    edQ,            \* the local Q
    edDoubles,      \* history: the calls of curve.Double made
    edLog,          \* what the logger was given
    edChecks,       \* the calls of curve.API().AssertIsEqual made
    edRet,          \* what Verify returned
    \* ---- package test: compile called by two goroutines ----
    gPc,            \* per goroutine: where it is inside compile
    gArgs,          \* per goroutine: the arguments of its call of compile
    gCcs,           \* per goroutine: the constraint system it holds or returned
    gErr,           \* per goroutine: the error its call returned
    gRuns,          \* per goroutine: runs of the compiler made by its call
    gHeap,          \* the heap of maps the Asserts hold in compiled
    gNext,          \* allocation counter: identity of the next constraint system
    gCalls,         \* number of calls of compile made so far
    gRaced,         \* per goroutine: its map access overlapped a write
    gFatal          \* how the test binary ended, if it did

srsVars == <<srsCache, lock, pc, ccs, srs, err, nextSRS, calls, aborted,
             cachedReturns, generated, genFailed>>

cfgVars == <<maps, cfgPc, caller, opt, nApplied, nHints, configs, cfgErr, logged,
             overridden, hinted>>

regVars == <<onceDone, onceM, rpc, bodyPos, regCalls, bodyRuns, bodyEnds>>

plkVars == <<plkOp, plkArgs, plkImpl, plkOut, plkCalls>>

tstVars == <<tAsserts, tCompiled, tNext, tRuns, tCalls, tLast, tDone, tFailed>>

\* the variables of the parts written after the first three
prvVars == <<pTest, pAssert, pCircuit, pSecret, pBackends, pFuzzing, pParent,
             pIdx, pPc, pTrace, fCount, fIdx, fPc, fSamples, fLast, fLog>>

edVars == <<edPc, edCofactor, edDiff, edQ, edDoubles, edLog, edChecks, edRet>>

goVars == <<gPc, gArgs, gCcs, gErr, gRuns, gHeap, gNext, gCalls, gRaced, gFatal>>

extVars == <<plkVars, tstVars, prvVars, edVars, goVars>>

vars == <<srsVars, cfgVars, regVars, extVars>>

----------------------------------------------------------------------------
(* Bounds of the model *)

\* number of NewKZGSRS calls explored
MaxCalls == 3

\* goroutines calling NewKZGSRS
Threads == {"t1", "t2"}

\* number of options passed to one NewConfig call
MaxOpts == 2

\* number of hints passed to one WithHints call
MaxHints == 2

\* goroutines calling RegisterHints
RegThreads == {"r1", "r2", "r3"}

\* number of RegisterHints calls explored
MaxRegisterCalls == 3

\* number of calls of package plonk explored
MaxPlkCalls == 3

\* number of calls of Assert.compile explored
MaxCompileCalls == 2

\* the fuzzCount a test passes to Fuzz
FuzzCount == 1
\* calls of compile the two goroutines make
MaxGoCalls == 2

\* the tests that make an Assert: a test function, which calls NewAssert, and
\* the subtests Run starts
Tests == {"Test", "Test/sub"}

----------------------------------------------------------------------------
(* Values *)

NIL == "nil"

\* the nil kzg.SRS, and the absence of a call's argument
NilSRS == [id |-> 0, curve |-> NIL, size |-> 0]
NoCCS == [field |-> NIL, nbConstraints |-> 0, nbPublic |-> 0]
NoThread == "unlocked"

\* Scalar fields a constraint system can be over. The first two stand for the
\* five curves newKZGSRS has a case for, the third for a curve gnark knows
\* but newKZGSRS has no case for.
Fields == {"fr_bn254", "fr_bls12_381", "fr_bw6_761"}

\* utils.FieldToCurve(ccs.Field())
FieldToCurve(f) ==
    CASE f = "fr_bn254" -> "BN254"
      [] f = "fr_bls12_381" -> "BLS12_381"
      [] f = "fr_bw6_761" -> "BW6_761"
      [] OTHER -> "UNKNOWN"

\* the cases of the switch in newKZGSRS
SwitchCurves == {"BN254", "BLS12_381", "BLS12_377", "BLS24_317", "BLS24_315"}

\* ccs.GetNbConstraints() and ccs.GetNbPublicVariables(): counts, never
\* negative, so uint64(sizeSystem) is sizeSystem.
NbConstraintsValues == {0, 3, 2^14 - 1, 2^14}
NbPublicValues == {0, 1}

CCSValues == [field : Fields, nbConstraints : NbConstraintsValues,
              nbPublic : NbPublicValues]

\* const srsCachedSize = (1 << 14) + 3
srsCachedSize == 2^14 + 3

\* math/bits.OnesCount64
RECURSIVE OnesCount64(_)
OnesCount64(n) == IF n = 0 THEN 0 ELSE (n % 2) + OnesCount64(n \div 2)

\* math/bits.Len64: the number of bits needed to represent n
RECURSIVE Len64(_)
Len64(n) == IF n = 0 THEN 0 ELSE 1 + Len64(n \div 2)

\* math/bits.LeadingZeros64
LeadingZeros64(n) == 64 - Len64(n)

\* ecc.NextPowerOfTwo (gnark-crypto), as NewKZGSRS calls it. Its panic for
\* t = 0 needs n >= 2^63, which no count reaches.
NextPowerOfTwo(n) ==
    LET c == OnesCount64(n) IN
    IF c = 0 THEN 1
    ELSE IF c = 1 THEN n
    ELSE LET t == LeadingZeros64(n) IN 2^(64 - t)

\* NewKZGSRS: sizeSystem and kzgSize
SizeSystem(c) == c.nbConstraints + c.nbPublic
KzgSize(c) == NextPowerOfTwo(SizeSystem(c)) + 3

\* variant: the comparison is strict
UseCacheStrict(kzgSize) == kzgSize < srsCachedSize

\* NewKZGSRS: if kzgSize <= srsCachedSize { return getCachedSRS(ccs) }
UseCache(kzgSize) == kzgSize <= srsCachedSize

\* a kzg.SRS object: its identity, its curve and its size
NewSRS(id, curve, size) == [id |-> id, curve |-> curve, size |-> size]

\* map operations
EmptyMap == [k \in {} |-> NIL]
MapPut(m, k, v) == [x \in DOMAIN m \cup {k} |-> IF x = k THEN v ELSE m[x]]

\* every SRS object some variable refers to
LiveSRS == {srsCache[c] : c \in DOMAIN srsCache}
             \cup {srs[t] : t \in {u \in Threads : srs[u] # NilSRS}}
             \cup {r.srs : r \in cachedReturns} \cup generated

----------------------------------------------------------------------------
(* package test: NewKZGSRS, getCachedSRS, newKZGSRS *)

\* variant: getCachedSRS does not wait for the mutex
CanLockAlways(t) == TRUE

\* variant: one mutex for each field
CanLockPerField(t) ==
    IF lock = NoThread THEN TRUE ELSE ccs[lock].field # ccs[t].field

\* lock.Lock() returns only when no thread holds the mutex
CanLock(t) == lock = NoThread

\* variant: the lookup never finds the entry
CacheHitNever(curveID) == FALSE

\* srs, ok := srsCache[curveID]
CacheHit(curveID) == curveID \in DOMAIN srsCache

\* variant: the cached SRS is generated at the requested size
CachedGenSizeRequested(t) == KzgSize(ccs[t])

\* getCachedSRS: newKZGSRS(curveID, srsCachedSize)
CachedGenSize(t) == srsCachedSize

\* variant: the uncached SRS is generated at the default size
UncachedGenSizeDefault(t) == srsCachedSize

\* NewKZGSRS: newKZGSRS(utils.FieldToCurve(ccs.Field()), kzgSize)
UncachedGenSize(t) == KzgSize(ccs[t])

\* newKZGSRS: rand.Int may fail; then the switch calls the curve's
\* kzg.NewSRS, which may fail, or panics for a curve it has no case for.
GenOutcomes(curve) ==
    IF curve \in SwitchCurves THEN {"ok", "errRand", "errNewSRS"}
    ELSE {"errRand", "panic"}

\* variant: the result is stored before the error is looked at
CacheAfterFailureStored(curveID) == MapPut(srsCache, curveID, NilSRS)

\* getCachedSRS: what the cache holds after newKZGSRS returned an error
CacheAfterFailure(curveID) == srsCache

\* getCachedSRS: srsCache[curveID] = srs
CacheAfterStore(curveID, s) == MapPut(srsCache, curveID, s)

InitSRS ==
    /\ srsCache = EmptyMap
    /\ lock = NoThread
    /\ pc = [t \in Threads |-> "idle"]
    /\ ccs = [t \in Threads |-> NoCCS]
    /\ srs = [t \in Threads |-> NilSRS]
    /\ err = [t \in Threads |-> NIL]
    /\ nextSRS = 1
    /\ calls = 0
    /\ aborted = FALSE
    /\ cachedReturns = {}
    /\ generated = {}
    /\ genFailed = {}

\* NewKZGSRS, lines 236-248: compute kzgSize and choose the path
NewKZGSRS(t, c) ==
    /\ ~aborted
    /\ pc[t] = "idle"
    /\ calls < MaxCalls
    /\ calls' = calls + 1
    /\ ccs' = [ccs EXCEPT ![t] = c]
    /\ pc' = [pc EXCEPT ![t] = IF UseCache(KzgSize(c)) THEN "lock" ELSE "ugen"]
    /\ UNCHANGED <<srsCache, lock, srs, err, nextSRS, aborted,
                   cachedReturns, generated, genFailed>>
    /\ UNCHANGED <<cfgVars, regVars, extVars>>

\* getCachedSRS, line 257: lock.Lock()
Lock(t) ==
    /\ ~aborted
    /\ pc[t] = "lock"
    /\ CanLock(t)
    /\ lock' = t
    /\ pc' = [pc EXCEPT ![t] = "check"]
    /\ UNCHANGED <<srsCache, ccs, srs, err, nextSRS, calls, aborted,
                   cachedReturns, generated, genFailed>>
    /\ UNCHANGED <<cfgVars, regVars, extVars>>

\* getCachedSRS, lines 260-264: look the curve up; on a hit return the entry
\* (the deferred lock.Unlock() runs)
Lookup(t) ==
    /\ ~aborted
    /\ pc[t] = "check"
    /\ LET curveID == FieldToCurve(ccs[t].field) IN
       IF CacheHit(curveID)
       THEN /\ srs' = [srs EXCEPT ![t] = srsCache[curveID]]
            /\ err' = [err EXCEPT ![t] = NIL]
            /\ lock' = NoThread
            /\ pc' = [pc EXCEPT ![t] = "done"]
            /\ cachedReturns' = cachedReturns \cup
                   {[curve |-> curveID, srs |-> srsCache[curveID]]}
       ELSE /\ pc' = [pc EXCEPT ![t] = "gen"]
            /\ UNCHANGED <<srs, err, lock, cachedReturns>>
    /\ UNCHANGED <<srsCache, ccs, nextSRS, calls, aborted, generated, genFailed>>
    /\ UNCHANGED <<cfgVars, regVars, extVars>>

\* getCachedSRS, lines 266-269: newKZGSRS(curveID, srsCachedSize); an error
\* is returned (the deferred lock.Unlock() runs, also when newKZGSRS panics)
Generate(t) ==
    /\ ~aborted
    /\ pc[t] = "gen"
    /\ LET curveID == FieldToCurve(ccs[t].field) IN
       \E o \in GenOutcomes(curveID) :
          CASE o = "ok" ->
                 LET s == NewSRS(nextSRS, curveID, CachedGenSize(t)) IN
                 /\ srs' = [srs EXCEPT ![t] = s]
                 /\ nextSRS' = nextSRS + 1
                 /\ generated' = generated \cup {s}
                 /\ pc' = [pc EXCEPT ![t] = "store"]
                 /\ UNCHANGED <<srsCache, lock, err, aborted, genFailed>>
            [] o = "panic" ->
                 /\ aborted' = TRUE
                 /\ lock' = NoThread
                 /\ pc' = [pc EXCEPT ![t] = "panicked"]
                 /\ UNCHANGED <<srsCache, srs, err, nextSRS, generated, genFailed>>
            [] OTHER ->
                 /\ srs' = [srs EXCEPT ![t] = NilSRS]
                 /\ err' = [err EXCEPT ![t] = o]
                 /\ srsCache' = CacheAfterFailure(curveID)
                 /\ lock' = NoThread
                 /\ genFailed' = genFailed \cup {curveID}
                 /\ pc' = [pc EXCEPT ![t] = "done"]
                 /\ UNCHANGED <<nextSRS, aborted, generated>>
    /\ UNCHANGED <<ccs, calls, cachedReturns>>
    /\ UNCHANGED <<cfgVars, regVars, extVars>>

\* getCachedSRS, lines 270-271: store the SRS and return it (the deferred
\* lock.Unlock() runs)
Store(t) ==
    /\ ~aborted
    /\ pc[t] = "store"
    /\ LET curveID == FieldToCurve(ccs[t].field) IN
       /\ srsCache' = CacheAfterStore(curveID, srs[t])
       /\ cachedReturns' = cachedReturns \cup {[curve |-> curveID, srs |-> srs[t]]}
    /\ err' = [err EXCEPT ![t] = NIL]
    /\ lock' = NoThread
    /\ pc' = [pc EXCEPT ![t] = "done"]
    /\ UNCHANGED <<ccs, srs, nextSRS, calls, aborted, generated, genFailed>>
    /\ UNCHANGED <<cfgVars, regVars, extVars>>

\* NewKZGSRS, line 246, and newKZGSRS: the path that bypasses the cache
GenerateUncached(t) ==
    /\ ~aborted
    /\ pc[t] = "ugen"
    /\ LET curveID == FieldToCurve(ccs[t].field) IN
       \E o \in GenOutcomes(curveID) :
          CASE o = "ok" ->
                 /\ srs' = [srs EXCEPT ![t] = NewSRS(nextSRS, curveID, UncachedGenSize(t))]
                 /\ err' = [err EXCEPT ![t] = NIL]
                 /\ nextSRS' = nextSRS + 1
                 /\ pc' = [pc EXCEPT ![t] = "done"]
                 /\ UNCHANGED aborted
            [] o = "panic" ->
                 /\ aborted' = TRUE
                 /\ pc' = [pc EXCEPT ![t] = "panicked"]
                 /\ UNCHANGED <<srs, err, nextSRS>>
            [] OTHER ->
                 /\ srs' = [srs EXCEPT ![t] = NilSRS]
                 /\ err' = [err EXCEPT ![t] = o]
                 /\ pc' = [pc EXCEPT ![t] = "done"]
                 /\ UNCHANGED <<nextSRS, aborted>>
    /\ UNCHANGED <<srsCache, lock, ccs, calls, cachedReturns, generated, genFailed>>
    /\ UNCHANGED <<cfgVars, regVars, extVars>>

\* the caller takes the result; the thread can call again
Return(t) ==
    /\ ~aborted
    /\ pc[t] = "done"
    /\ pc' = [pc EXCEPT ![t] = "idle"]
    /\ ccs' = [ccs EXCEPT ![t] = NoCCS]
    /\ srs' = [srs EXCEPT ![t] = NilSRS]
    /\ err' = [err EXCEPT ![t] = NIL]
    /\ UNCHANGED <<srsCache, lock, nextSRS, calls, aborted,
                   cachedReturns, generated, genFailed>>
    /\ UNCHANGED <<cfgVars, regVars, extVars>>

NextSRS ==
    \E t \in Threads :
        \/ \E c \in CCSValues : NewKZGSRS(t, c)
        \/ Lock(t)
        \/ Lookup(t)
        \/ Generate(t)
        \/ Store(t)
        \/ GenerateUncached(t)
        \/ Return(t)


----------------------------------------------------------------------------
(* Properties of the SRS cache, checked under SpecSRS *)

\* the program points inside the critical section of getCachedSRS
InCritical == {"check", "gen", "store"}

\* whether thread t's call is one NewKZGSRS routes to getCachedSRS
OnCachedPath(t) == ccs[t] # NoCCS /\ KzgSize(ccs[t]) <= srsCachedSize

\* C1: every successful call routed to the cache returns, for one field, the
\* very same SRS object: whatever getCachedSRS has returned or stored for a
\* curve is the cache's entry for that curve ever after (one entry per
\* curve, never replaced, never removed).
C1_SameCachedInstance ==
    /\ \A r \in cachedReturns :
          r.curve \in DOMAIN srsCache /\ srsCache[r.curve] = r.srs
    /\ \A r1, r2 \in cachedReturns : r1.curve = r2.curve => r1.srs = r2.srs
    /\ \A t \in Threads :
          (pc[t] = "done" /\ OnCachedPath(t) /\ err[t] = NIL) =>
              srs[t] = srsCache[FieldToCurve(ccs[t].field)]

\* two calls for one field have returned and hold the same object
C1_Witness ==
    \E t1, t2 \in Threads :
        /\ t1 # t2
        /\ pc[t1] = "done" /\ pc[t2] = "done"
        /\ OnCachedPath(t1) /\ OnCachedPath(t2)
        /\ ccs[t1].field = ccs[t2].field
        /\ srs[t1] # NilSRS /\ srs[t1] = srs[t2]

\* C2: under concurrent calls the SRS of a field is generated at most once
\* (exactly once when generation succeeds) and every caller gets that one
\* object: at most one thread is between Lock and Unlock, and it is the
\* holder of the mutex.
C2_GeneratedOnce ==
    /\ \A s1, s2 \in generated : s1.curve = s2.curve => s1 = s2
    /\ \A r \in cachedReturns : r.srs \in generated
    /\ \A t1, t2 \in Threads :
          (pc[t1] \in InCritical /\ pc[t2] \in InCritical) => t1 = t2
    /\ \A t \in Threads : pc[t] \in InCritical => lock = t

\* one thread is about to store the SRS it generated while another thread,
\* asking for the same field, waits for the mutex
C2_Witness ==
    \E t1, t2 \in Threads :
        /\ t1 # t2
        /\ pc[t1] = "store" /\ pc[t2] = "lock"
        /\ ccs[t1].field = ccs[t2].field

\* C3: a call whose size exceeds srsCachedSize never enters getCachedSRS;
\* its generation step can be taken whoever holds the mutex, changes neither
\* the cache nor the mutex, and on success yields an object that did not
\* exist before, of exactly the requested size.
C3_UncachedFrame ==
    [][\A t \in Threads :
          /\ (ccs[t] # NoCCS /\ KzgSize(ccs[t]) > srsCachedSize) =>
                 pc[t] \in {"ugen", "done", "panicked"}
          /\ (pc[t] = "ugen" /\ ~aborted) => ENABLED GenerateUncached(t)
          /\ (pc[t] = "ugen" /\ pc'[t] # "ugen") =>
                 /\ srsCache' = srsCache
                 /\ lock' = lock
                 /\ (pc'[t] = "done" /\ err'[t] = NIL) =>
                        /\ srs'[t] # NilSRS
                        /\ srs'[t] \notin LiveSRS
                        /\ srs'[t].size = KzgSize(ccs[t])
                        /\ srs'[t].curve = FieldToCurve(ccs[t].field)]_vars

\* an uncached call has returned its SRS while another thread holds the
\* mutex in the middle of getCachedSRS
C3_Witness ==
    \E t1, t2 \in Threads :
        /\ pc[t1] = "done" /\ ~OnCachedPath(t1) /\ srs[t1] # NilSRS
        /\ srs[t1].size > srsCachedSize
        /\ pc[t2] = "gen" /\ lock = t2

\* the least power of two that is at least n
LeastPowerOfTwoAtLeast(n) ==
    LET P == {2^k : k \in 0..20} IN
    CHOOSE p \in P : p >= n /\ \A q \in P : q >= n => p <= q

\* C4: the size is NextPowerOfTwo(nbConstraints + nbPublicVariables) + 3, and
\* the call is on the cached path iff nbConstraints + nbPublicVariables <= 2^14.
C4_Routing ==
    \A t \in Threads : ccs[t] # NoCCS =>
        LET n == ccs[t].nbConstraints + ccs[t].nbPublic IN
        /\ KzgSize(ccs[t]) = LeastPowerOfTwoAtLeast(n) + 3
        /\ pc[t] \in {"lock"} \cup InCritical => n <= 2^14
        /\ pc[t] = "ugen" => n > 2^14
        /\ pc[t] \in {"lock", "ugen"} => (pc[t] = "lock" <=> n <= 2^14)

\* a system of exactly 2^14 constraints and public variables is on the cached
\* path while one of 2^14 + 1 is on the uncached path
C4_Witness ==
    \E t1, t2 \in Threads :
        /\ pc[t1] = "lock" /\ SizeSystem(ccs[t1]) = 2^14
        /\ pc[t2] = "ugen" /\ SizeSystem(ccs[t2]) = 2^14 + 1

\* C5: every SRS generated or stored by getCachedSRS has the size
\* srsCachedSize, so a cached SRS is large enough for every request that is
\* routed to the cache.
C5_CachedSize ==
    /\ \A s \in generated : s.size = srsCachedSize
    /\ \A c \in DOMAIN srsCache :
          /\ srsCache[c] # NilSRS
          /\ srsCache[c].size = srsCachedSize
          /\ srsCache[c].curve = c
    /\ \A t \in Threads :
          (pc[t] \in {"store", "done"} /\ OnCachedPath(t) /\ srs[t] # NilSRS) =>
              /\ srs[t].size = srsCachedSize
              /\ srs[t].size >= KzgSize(ccs[t])

\* a request for a size below the default has been answered from the cache
C5_Witness ==
    \E t \in Threads :
        /\ pc[t] = "done" /\ OnCachedPath(t) /\ srs[t] # NilSRS
        /\ KzgSize(ccs[t]) < srsCachedSize
        /\ srs[t] = srsCache[FieldToCurve(ccs[t].field)]

\* C6: when generation fails on a miss, getCachedSRS returns the error and a
\* nil SRS, leaves the cache as it was (without an entry for the curve) and
\* releases the mutex; a lookup that misses always goes on to generate, and
\* the cache only ever holds objects that were generated successfully.
C6_FailureLeavesNoEntry ==
    [][\A t \in Threads :
          LET curveID == FieldToCurve(ccs[t].field) IN
          /\ (pc[t] = "gen" /\ pc'[t] = "done") =>
                 /\ err'[t] # NIL
                 /\ srs'[t] = NilSRS
                 /\ srsCache' = srsCache
                 /\ curveID \notin DOMAIN srsCache'
                 /\ lock' = NoThread
          /\ (pc[t] = "gen" /\ pc'[t] = "store") => err'[t] = NIL /\ srs'[t] # NilSRS
          /\ (pc[t] = "check" /\ pc'[t] # "check" /\ curveID \notin DOMAIN srsCache) =>
                 pc'[t] = "gen"
          /\ \A c \in DOMAIN srsCache' : srsCache'[c] \in generated']_vars

\* a call is generating the SRS of a curve for which an earlier generation
\* failed
C6_Witness ==
    \E t \in Threads :
        /\ pc[t] = "gen"
        /\ FieldToCurve(ccs[t].field) \in genFailed
        /\ FieldToCurve(ccs[t].field) \notin DOMAIN srsCache

----------------------------------------------------------------------------
(* package solver: values *)

\* hint ids and hint functions: "f" is the function the package defining a
\* hint registers under its id, "g" another function a caller supplies
HintIDs == {"h1", "h2"}
RegisteredFn == "f"
HintFns == {RegisteredFn, "g"}

\* type Hint: an id and its function, as WithHints reads them (h.ID, h.Fn)
Hints == [ID : HintIDs, Fn : HintFns]

\* the hints the packages register
RegisteredHints == {h \in Hints : h.Fn = RegisteredFn}

\* logger.Logger(), the loggers a caller passes to WithLogger, and the zero
\* zerolog.Logger of Config{}
GnarkLogger == "gnark"
Loggers == {"custom"}
ZeroLogger == "zero"

\* the nil map, and the map the registry keeps its hints in
NilRef == 0
RegistryRef == 1

\* Config{}
ZeroConfig == [HintFunctions |-> NilRef, Logger |-> ZeroLogger]

\* the code that calls NewConfig: each caller has one variable for the
\* Config it gets; NoConfig is a variable that holds none
Holders == {"c1", "c2"}
NoConfig == [HintFunctions |-> NilRef, Logger |-> NIL]

\* an Option value: the closure one of the option constructors returns. The
\* hints WithHints was given are drawn one by one as its loop ranges over
\* them, at most MaxHints of them.
WithHints == [kind |-> "WithHints", id |-> NIL, f |-> NIL, l |-> NIL]
OverrideHint(id, f) == [kind |-> "OverrideHint", id |-> id, f |-> f, l |-> NIL]
WithLogger(l) == [kind |-> "WithLogger", id |-> NIL, f |-> NIL, l |-> l]
\* an option of the caller's own that returns an error, and that error
ErrOption == "optionError"
FailingOption == [kind |-> "Failing", id |-> NIL, f |-> NIL, l |-> NIL]

Options ==
    {WithHints}
      \cup {OverrideHint(id, f) : id \in HintIDs, f \in HintFns}
      \cup {WithLogger(l) : l \in Loggers}
      \cup {FailingOption}

\* the registry's contents
Registry == maps[RegistryRef]

\* GetRegisteredHints(): the map NewConfig ranges over
GetRegisteredHints == maps[RegistryRef]

----------------------------------------------------------------------------
(* package solver: RegisterHint, NewConfig and the options *)

\* RegisterHint: an id is written once; a second registration keeps the entry
RegistryAfterRegister(m, h) == IF h.ID \in DOMAIN m THEN m ELSE MapPut(m, h.ID, h.Fn)

\* variant: NewConfig uses the registry's map instead of making one
NewMapRefShared == RegistryRef

\* NewConfig: make(map[HintID]HintFn): a map no live reference points to
NewMapRef ==
    CHOOSE r \in (RegistryRef + 1)..(RegistryRef + 1 + Cardinality(DOMAIN maps)) :
        /\ r \notin DOMAIN maps
        /\ \A q \in (RegistryRef + 1)..(r - 1) : q \in DOMAIN maps

\* variant: WithHints never finds the id
HintPresentNever(m, h) == FALSE

\* WithHints: if _, ok := opt.HintFunctions[uuid]; ok
HintPresent(m, h) == h.ID \in DOMAIN m

\* no warning logged
NoWarnings == [id \in HintIDs |-> 0]

\* WithHints, lines 30-34: the body of the loop for the hint h. m is
\* opt.HintFunctions and w the number of duplicate-hint warnings logged by
\* this call, per hint id.
WithHintsBody(m, w, h) ==
    IF HintPresent(m, h)
    THEN [m |-> m, w |-> [w EXCEPT ![h.ID] = @ + 1]]
    ELSE [m |-> MapPut(m, h.ID, h.Fn), w |-> w]

\* variant: OverrideHint leaves an entry that is present
OverrideHintIfAbsent(m, id, f) == IF id \in DOMAIN m THEN m ELSE MapPut(m, id, f)

\* OverrideHint: opt.HintFunctions[id] = f
OverrideHintApply(m, id, f) == MapPut(m, id, f)

\* variant: NewConfig wraps the error of the option
ReturnedErrorWrapped(e) == "NewConfig: option failed"

\* NewConfig, lines 66-68: return Config{}, err
ReturnedError(e) == e

\* the heap after a collection: the maps some reference still points to
Collect(heap, cfgs, o) ==
    LET live == {RegistryRef, o.HintFunctions}
                  \cup {cfgs[c].HintFunctions : c \in Holders}
    IN [r \in DOMAIN heap \cap live |-> heap[r]]

InitCfg ==
    /\ overridden = EmptyMap
    /\ hinted = EmptyMap
    /\ maps = [r \in {RegistryRef} |-> EmptyMap]
    /\ cfgPc = "idle"
    /\ caller = NIL
    /\ opt = ZeroConfig
    /\ nApplied = 0
    /\ nHints = 0
    /\ configs = [c \in Holders |-> NoConfig]
    /\ cfgErr = NIL
    /\ logged = NoWarnings

\* solver.RegisterHint(h), called by a package that defines hints. NewConfig
\* reads the registry once, when it starts, so a registration made while
\* NewConfig runs has the effect of one made after it returned.
RegisterHint(h) ==
    /\ cfgPc = "idle"
    /\ maps' = [maps EXCEPT ![RegistryRef] = RegistryAfterRegister(@, h)]
    /\ logged' = NoWarnings
    /\ UNCHANGED <<cfgPc, caller, opt, nApplied, nHints, configs, cfgErr>>
    /\ UNCHANGED <<overridden, hinted>>
    /\ UNCHANGED <<srsVars, regVars, extVars>>

\* NewConfig, lines 59-64: the default Config with a copy of the registry
BeginNewConfig(c) ==
    /\ cfgPc = "idle"
    /\ configs[c] = NoConfig
    /\ caller' = c
    /\ LET ref == NewMapRef IN
       /\ maps' = MapPut(maps, ref, GetRegisteredHints)
       /\ opt' = [HintFunctions |-> ref, Logger |-> GnarkLogger]
    /\ nApplied' = 0
    /\ cfgErr' = NIL
    /\ cfgPc' = "loop"
    /\ logged' = NoWarnings
    /\ UNCHANGED <<nHints, configs>>
    /\ overridden' = EmptyMap
    /\ hinted' = EmptyMap
    /\ UNCHANGED <<srsVars, regVars, extVars>>

\* NewConfig, lines 65-69: the next option of opts is called on &opt. An
\* OverrideHint or a WithLogger runs to its end; a WithHints enters its loop;
\* when an option returns an error NewConfig returns Config{} and the error,
\* and the map it made is garbage
ApplyOption(o) ==
    /\ cfgPc = "loop"
    /\ nApplied < MaxOpts
    /\ LET ref == opt.HintFunctions IN
       CASE o.kind = "WithHints" ->
              /\ cfgPc' = "hints"
              /\ nHints' = 0
              /\ logged' = NoWarnings
              /\ UNCHANGED <<maps, opt, nApplied, caller, configs, cfgErr>>
         [] o.kind = "OverrideHint" ->
              /\ maps' = [maps EXCEPT ![ref] = OverrideHintApply(@, o.id, o.f)]
              /\ logged' = NoWarnings
              /\ nApplied' = nApplied + 1
              /\ UNCHANGED <<opt, cfgPc, nHints, caller, configs, cfgErr>>
         [] o.kind = "WithLogger" ->
              /\ opt' = [opt EXCEPT !.Logger = o.l]
              /\ logged' = NoWarnings
              /\ nApplied' = nApplied + 1
              /\ UNCHANGED <<maps, cfgPc, nHints, caller, configs, cfgErr>>
         [] OTHER ->
              /\ configs' = [configs EXCEPT ![caller] = ZeroConfig]
              /\ cfgErr' = ReturnedError(ErrOption)
              /\ opt' = ZeroConfig
              /\ maps' = Collect(maps, configs', opt')
              /\ nApplied' = 0
              /\ cfgPc' = "idle"
              /\ caller' = NIL
              /\ logged' = NoWarnings
              /\ UNCHANGED nHints
    /\ overridden' = IF o.kind = "OverrideHint"
                     THEN MapPut(overridden, o.id, o.f) ELSE overridden
    /\ UNCHANGED hinted
    /\ UNCHANGED <<srsVars, regVars, extVars>>

\* WithHints, lines 28-35: one iteration of the loop, for the next hint h of
\* hintFunctions
WithHintsNext(h) ==
    /\ cfgPc = "hints"
    /\ nHints < MaxHints
    /\ LET ref == opt.HintFunctions
           r == WithHintsBody(maps[ref], logged, h)
       IN /\ maps' = [maps EXCEPT ![ref] = r.m]
          /\ logged' = r.w
    /\ nHints' = nHints + 1
    /\ UNCHANGED <<cfgPc, opt, nApplied, caller, configs, cfgErr>>
    /\ hinted' = IF h.ID \in DOMAIN hinted THEN hinted ELSE MapPut(hinted, h.ID, h.Fn)
    /\ UNCHANGED overridden
    /\ UNCHANGED <<srsVars, regVars, extVars>>

\* WithHints, line 36: hintFunctions is exhausted, return nil; NewConfig goes
\* on with the next option
WithHintsReturn ==
    /\ cfgPc = "hints"
    /\ cfgPc' = "loop"
    /\ nApplied' = nApplied + 1
    /\ nHints' = 0
    /\ UNCHANGED <<maps, opt, caller, configs, cfgErr, logged>>
    /\ UNCHANGED <<overridden, hinted>>
    /\ UNCHANGED <<srsVars, regVars, extVars>>

\* NewConfig, line 70: return opt, nil
EndNewConfig ==
    /\ cfgPc = "loop"
    /\ configs' = [configs EXCEPT ![caller] = opt]
    /\ cfgErr' = NIL
    /\ opt' = ZeroConfig
    /\ nApplied' = 0
    /\ cfgPc' = "idle"
    /\ caller' = NIL
    /\ logged' = NoWarnings
    /\ UNCHANGED <<maps, nHints>>
    /\ overridden' = EmptyMap
    /\ hinted' = EmptyMap
    /\ UNCHANGED <<srsVars, regVars, extVars>>

\* a holder of a returned Config writes cfg.HintFunctions[id] = f
WriteConfig(c, id, f) ==
    /\ cfgPc = "idle"
    /\ configs[c].HintFunctions # NilRef
    /\ maps' = [maps EXCEPT ![configs[c].HintFunctions] = MapPut(@, id, f)]
    /\ logged' = NoWarnings
    /\ UNCHANGED <<cfgPc, caller, opt, nApplied, nHints, configs, cfgErr>>
    /\ UNCHANGED <<overridden, hinted>>
    /\ UNCHANGED <<srsVars, regVars, extVars>>

\* a holder is done with its Config; the map nothing refers to any more is
\* collected
DropConfig(c) ==
    /\ cfgPc = "idle"
    /\ configs[c] # NoConfig
    /\ configs' = [configs EXCEPT ![c] = NoConfig]
    /\ maps' = Collect(maps, configs', opt)
    /\ logged' = NoWarnings
    /\ UNCHANGED <<cfgPc, caller, opt, nApplied, nHints, cfgErr>>
    /\ UNCHANGED <<overridden, hinted>>
    /\ UNCHANGED <<srsVars, regVars, extVars>>

NextCfg ==
    \/ \E h \in RegisteredHints : RegisterHint(h)
    \/ \E c \in Holders : BeginNewConfig(c)
    \/ \E o \in Options : ApplyOption(o)
    \/ \E h \in Hints : WithHintsNext(h)
    \/ WithHintsReturn
    \/ EndNewConfig
    \/ \E c \in Holders, id \in HintIDs, f \in HintFns : WriteConfig(c, id, f)
    \/ \E c \in Holders : DropConfig(c)

----------------------------------------------------------------------------
(* package std: RegisterHints *)

\* registerHints, lines 27-38: the hints registered, one statement each
StdHints ==
    << "decompose_scalar_g1_bls24315", "decompose_scalar_g1_bls12377",
       "decompose_scalar_g2_bls24315", "decompose_scalar_g2_bls12377",
       "n_trits", "nnaf", "ith_bit", "n_bits",
       "selector.GetHints", "emulated.GetHints", "count", "decompose" >>

\* solver.NewHint(name, fn)
NewHint(name) == [ID |-> name, Fn |-> name]

\* variant: RegisterHints calls registerHints itself
RegisterHintsDirect == "callf"

\* RegisterHints, line 22: registerOnce.Do(registerHints)
RegisterHintsEntry == "do"

InitReg ==
    /\ onceDone = 0
    /\ onceM = NoThread
    /\ rpc = [t \in RegThreads |-> "idle"]
    /\ bodyPos = [t \in RegThreads |-> 0]
    /\ regCalls = 0
    /\ bodyRuns = 0
    /\ bodyEnds = 0

\* RegisterHints, lines 21-23
RegisterHints(t) ==
    /\ rpc[t] = "idle"
    /\ regCalls < MaxRegisterCalls
    /\ regCalls' = regCalls + 1
    /\ rpc' = [rpc EXCEPT ![t] = RegisterHintsEntry]
    /\ UNCHANGED <<onceDone, onceM, bodyPos, bodyRuns, bodyEnds>>
    /\ UNCHANGED <<srsVars, cfgVars, extVars>>

\* sync.Once.Do: if o.done.Load() == 0 { o.doSlow(f) }
OnceDo(t) ==
    /\ rpc[t] = "do"
    /\ rpc' = [rpc EXCEPT ![t] = IF onceDone = 0 THEN "doSlow" ELSE "returned"]
    /\ UNCHANGED <<onceDone, onceM, bodyPos, regCalls, bodyRuns, bodyEnds>>
    /\ UNCHANGED <<srsVars, cfgVars, extVars>>

\* sync.Once.doSlow: o.m.Lock()
OnceLock(t) ==
    /\ rpc[t] = "doSlow"
    /\ onceM = NoThread
    /\ onceM' = t
    /\ rpc' = [rpc EXCEPT ![t] = "locked"]
    /\ UNCHANGED <<onceDone, bodyPos, regCalls, bodyRuns, bodyEnds>>
    /\ UNCHANGED <<srsVars, cfgVars, extVars>>

\* sync.Once.doSlow: if o.done.Load() == 0 { defer o.done.Store(1); f() };
\* otherwise the deferred o.m.Unlock() runs and Do returns
OnceCheck(t) ==
    /\ rpc[t] = "locked"
    /\ IF onceDone = 0
       THEN /\ rpc' = [rpc EXCEPT ![t] = "callf"]
            /\ UNCHANGED onceM
       ELSE /\ rpc' = [rpc EXCEPT ![t] = "returned"]
            /\ onceM' = NoThread
    /\ UNCHANGED <<onceDone, bodyPos, regCalls, bodyRuns, bodyEnds>>
    /\ UNCHANGED <<srsVars, cfgVars, extVars>>

\* registerHints is entered
CallRegisterHints(t) ==
    /\ rpc[t] = "callf"
    /\ rpc' = [rpc EXCEPT ![t] = "body"]
    /\ bodyPos' = [bodyPos EXCEPT ![t] = 1]
    /\ bodyRuns' = bodyRuns + 1
    /\ UNCHANGED <<onceDone, onceM, regCalls, bodyEnds>>
    /\ UNCHANGED <<srsVars, cfgVars, extVars>>

\* registerHints, lines 27-38: one solver.RegisterHint(...) statement; after
\* the last one registerHints returns
RegisterStdHint(t) ==
    /\ rpc[t] = "body"
    /\ maps' = [maps EXCEPT ![RegistryRef] =
                   RegistryAfterRegister(@, NewHint(StdHints[bodyPos[t]]))]
    /\ IF bodyPos[t] = Len(StdHints)
       THEN /\ rpc' = [rpc EXCEPT ![t] = "deferred"]
            /\ bodyPos' = [bodyPos EXCEPT ![t] = 0]
            /\ bodyEnds' = bodyEnds + 1
       ELSE /\ bodyPos' = [bodyPos EXCEPT ![t] = @ + 1]
            /\ UNCHANGED <<rpc, bodyEnds>>
    /\ UNCHANGED <<onceDone, onceM, regCalls, bodyRuns>>
    /\ UNCHANGED <<cfgPc, caller, opt, nApplied, nHints, configs, cfgErr, logged,
                   overridden, hinted>>
    /\ UNCHANGED <<srsVars, extVars>>

\* sync.Once.doSlow: the deferred o.done.Store(1)
OnceStoreDone(t) ==
    /\ rpc[t] = "deferred"
    /\ onceDone' = 1
    /\ rpc' = [rpc EXCEPT ![t] = "unlock"]
    /\ UNCHANGED <<onceM, bodyPos, regCalls, bodyRuns, bodyEnds>>
    /\ UNCHANGED <<srsVars, cfgVars, extVars>>

\* sync.Once.doSlow: the deferred o.m.Unlock(); Do and RegisterHints return
OnceUnlock(t) ==
    /\ rpc[t] = "unlock"
    /\ onceM' = NoThread
    /\ rpc' = [rpc EXCEPT ![t] = "returned"]
    /\ UNCHANGED <<onceDone, bodyPos, regCalls, bodyRuns, bodyEnds>>
    /\ UNCHANGED <<srsVars, cfgVars, extVars>>

\* the caller goes on; the thread can call again
RegisterHintsReturn(t) ==
    /\ rpc[t] = "returned"
    /\ rpc' = [rpc EXCEPT ![t] = "idle"]
    /\ UNCHANGED <<onceDone, onceM, bodyPos, regCalls, bodyRuns, bodyEnds>>
    /\ UNCHANGED <<srsVars, cfgVars, extVars>>

NextReg ==
    \E t \in RegThreads :
        \/ RegisterHints(t)
        \/ OnceDo(t)
        \/ OnceLock(t)
        \/ OnceCheck(t)
        \/ CallRegisterHints(t)
        \/ RegisterStdHint(t)
        \/ OnceStoreDone(t)
        \/ OnceUnlock(t)
        \/ RegisterHintsReturn(t)

----------------------------------------------------------------------------
(* package plonk: values *)

\* the concrete types a constraint.ConstraintSystem can have: the PLONK
\* system of bn254, the R1CS of bn254, and the nil interface
CSTypes == {"*cs_bn254.SparseR1CS", "*cs_bn254.R1CS", NIL}

\* the concrete types a kzg.SRS can have (newKZGSRS makes both)
SRSTypes == {"*kzg_bn254.SRS", "*kzg_bls12381.SRS", NIL}

\* the concrete types behind the interfaces ProvingKey, VerifyingKey, Proof
PKTypes == {"*plonk_bn254.ProvingKey", "*other.ProvingKey", NIL}
VKTypes == {"*plonk_bn254.VerifyingKey", "*other.VerifyingKey", NIL}
ProofTypes == {"*plonk_bn254.Proof", "*other.Proof", NIL}

\* the concrete types of publicWitness.Vector()
VectorTypes == {"fr_bn254.Vector", "fr_bls12_381.Vector"}

\* ecc.ID values: the curve package plonk has a case for, two it has none
\* for, and ecc.UNKNOWN
CurveIDs == {"BN254", "BLS12_381", "BW6_761", "UNKNOWN"}

\* the arguments of a call; a function uses the fields it has parameters for
NoArgs == [first |-> "none", second |-> "none", vector |-> "none", curveID |-> "none"]
Args(first, second, vector, curveID) ==
    [first |-> first, second |-> second, vector |-> vector, curveID |-> curveID]

\* the values a function returns; a function uses the fields it has results for
Values(pk, vk, proof, obj, e) ==
    [pk |-> pk, vk |-> vk, proof |-> proof, obj |-> obj, err |-> e]

\* the curve-typed implementation was not called
NotCalled == [called |-> FALSE, val |-> Values(NIL, NIL, NIL, NIL, NIL)]
Called(v) == [called |-> TRUE, val |-> v]

\* how a call ends
NoOutcome == [kind |-> "none", val |-> Values(NIL, NIL, NIL, NIL, NIL), msg |-> NIL]
Returns(v) == [kind |-> "return", val |-> v, msg |-> NIL]
Panics(msg) == [kind |-> "panic", val |-> Values(NIL, NIL, NIL, NIL, NIL), msg |-> msg]

\* what plonk_bn254.Setup, Prove and Verify can return
SetupResults ==
    {Values("*plonk_bn254.ProvingKey", "*plonk_bn254.VerifyingKey", NIL, NIL, NIL),
     Values(NIL, NIL, NIL, NIL, "errSetup")}
ProveResults ==
    {Values(NIL, NIL, "*plonk_bn254.Proof", NIL, NIL),
     Values(NIL, NIL, NIL, NIL, "errProve")}
VerifyResults ==
    {Values(NIL, NIL, NIL, NIL, NIL),
     Values(NIL, NIL, NIL, NIL, "errVerify")}

\* witness.ErrInvalidWitness
ErrInvalidWitness == "ErrInvalidWitness"

----------------------------------------------------------------------------
(* package plonk: Setup, Prove, Verify *)

\* the cases of the type switches of Setup and Prove, and of Verify
SparseR1CSCases == {"*cs_bn254.SparseR1CS"}
ProofCases == {"*plonk_bn254.Proof"}

\* the type a case asserts its other argument to have: x.(*T) panics when x
\* holds another type or is nil
AssertedSRS(t) == "*kzg_bn254.SRS"
AssertedPK(t) == "*plonk_bn254.ProvingKey"
AssertedVK(t) == "*plonk_bn254.VerifyingKey"
AssertedVector(t) == "fr_bn254.Vector"

\* the run-time panic of a failed type assertion
ConversionPanic == Panics("interface conversion")

\* variant: the default case returns an error
UnrecognizedAsError(msg) == Returns(Values(NIL, NIL, NIL, NIL, msg))

\* the default case of a type switch: panic(msg)
Unrecognized(msg) == Panics(msg)

\* variant: Verify goes on to the implementation whatever the vector is
VectorOkAlways(t, v) == TRUE

\* Verify: w, ok := publicWitness.Vector().(fr_bn254.Vector)
VectorOk(t, v) == v = AssertedVector(t)

\* variant: a wrapper that replaces the error of the implementation
WrappedResult(v) == IF v.err = NIL THEN v ELSE [v EXCEPT !.err = "errPlonk"]

\* return plonk_bn254.F(...): the results of the implementation as they are
DelegatedResult(v) == v

InitPlk ==
    /\ plkOp = NIL
    /\ plkArgs = NoArgs
    /\ plkImpl = NotCalled
    /\ plkOut = NoOutcome
    /\ plkCalls = 0

\* a panic nothing recovers ends the process
PlkRunning == plkOut.kind # "panic"

\* a call of a function of package plonk begins
PlkCall(op, args) ==
    /\ PlkRunning
    /\ plkCalls < MaxPlkCalls
    /\ plkCalls' = plkCalls + 1
    /\ plkOp' = op
    /\ plkArgs' = args

\* plonk.Setup(ccs, kzgSRS)
Setup(c, k) ==
    /\ PlkCall("Setup", Args(c, k, "none", "none"))
    /\ IF c \in SparseR1CSCases
       THEN IF k = AssertedSRS(c)
            THEN \E v \in SetupResults :
                    /\ plkImpl' = Called(v)
                    /\ plkOut' = Returns(DelegatedResult(v))
            ELSE /\ plkImpl' = NotCalled
                 /\ plkOut' = ConversionPanic
       ELSE /\ plkImpl' = NotCalled
            /\ plkOut' = Unrecognized("unrecognized SparseR1CS curve type")
    /\ UNCHANGED <<srsVars, cfgVars, regVars, tstVars, prvVars, edVars, goVars>>

\* plonk.Prove(ccs, pk, fullWitness, opts...)
Prove(c, k) ==
    /\ PlkCall("Prove", Args(c, k, "none", "none"))
    /\ IF c \in SparseR1CSCases
       THEN IF k = AssertedPK(c)
            THEN \E v \in ProveResults :
                    /\ plkImpl' = Called(v)
                    /\ plkOut' = Returns(DelegatedResult(v))
            ELSE /\ plkImpl' = NotCalled
                 /\ plkOut' = ConversionPanic
       ELSE /\ plkImpl' = NotCalled
            /\ plkOut' = Unrecognized("unrecognized SparseR1CS curve type")
    /\ UNCHANGED <<srsVars, cfgVars, regVars, tstVars, prvVars, edVars, goVars>>

\* plonk.Verify(proof, vk, publicWitness)
Verify(p, k, w) ==
    /\ PlkCall("Verify", Args(p, k, w, "none"))
    /\ IF p \in ProofCases
       THEN IF ~VectorOk(p, w)
            THEN /\ plkImpl' = NotCalled
                 /\ plkOut' = Returns(Values(NIL, NIL, NIL, NIL, ErrInvalidWitness))
            ELSE IF k = AssertedVK(p)
            THEN \E v \in VerifyResults :
                    /\ plkImpl' = Called(v)
                    /\ plkOut' = Returns(DelegatedResult(v))
            ELSE /\ plkImpl' = NotCalled
                 /\ plkOut' = ConversionPanic
       ELSE /\ plkImpl' = NotCalled
            /\ plkOut' = Unrecognized("unrecognized proof type")
    /\ UNCHANGED <<srsVars, cfgVars, regVars, tstVars, prvVars, edVars, goVars>>

----------------------------------------------------------------------------
(* package plonk: NewCS, NewProvingKey, NewProof, NewVerifyingKey *)

\* the cases of the switch over curveID in each constructor
NewCSCases == {"BN254"}
NewProvingKeyCases == {"BN254"}
NewProofCases == {"BN254"}
NewVerifyingKeyCases == {"BN254"}

\* the composite literal a case assigns: a pointer to a zero value
EmptyCS(curveID) == "&cs_bn254.SparseR1CS{}"
EmptyProvingKey(curveID) == "&plonk_bn254.ProvingKey{}"
EmptyProof(curveID) == "&plonk_bn254.Proof{}"
EmptyVerifyingKey(curveID) == "&plonk_bn254.VerifyingKey{}"

\* the concrete type of the value a composite literal yields
TypeOf(obj) ==
    CASE obj = "&cs_bn254.SparseR1CS{}" -> "*cs_bn254.SparseR1CS"
      [] obj = "&plonk_bn254.ProvingKey{}" -> "*plonk_bn254.ProvingKey"
      [] obj = "&plonk_bn254.Proof{}" -> "*plonk_bn254.Proof"
      [] obj = "&plonk_bn254.VerifyingKey{}" -> "*plonk_bn254.VerifyingKey"
      [] OTHER -> NIL

\* variant: the default case is missing and the nil interface is returned
NotImplementedAsNil == Returns(Values(NIL, NIL, NIL, NIL, NIL))

\* the default case of the switch over curveID: panic("not implemented")
NotImplemented == Panics("not implemented")

\* plonk.NewCS(curveID)
NewCS(id) ==
    /\ PlkCall("NewCS", Args("none", "none", "none", id))
    /\ plkImpl' = NotCalled
    /\ plkOut' = IF id \in NewCSCases
                 THEN Returns(Values(NIL, NIL, NIL, EmptyCS(id), NIL))
                 ELSE NotImplemented
    /\ UNCHANGED <<srsVars, cfgVars, regVars, tstVars, prvVars, edVars, goVars>>

\* plonk.NewProvingKey(curveID)
NewProvingKey(id) ==
    /\ PlkCall("NewProvingKey", Args("none", "none", "none", id))
    /\ plkImpl' = NotCalled
    /\ plkOut' = IF id \in NewProvingKeyCases
                 THEN Returns(Values(NIL, NIL, NIL, EmptyProvingKey(id), NIL))
                 ELSE NotImplemented
    /\ UNCHANGED <<srsVars, cfgVars, regVars, tstVars, prvVars, edVars, goVars>>

\* plonk.NewProof(curveID)
NewProof(id) ==
    /\ PlkCall("NewProof", Args("none", "none", "none", id))
    /\ plkImpl' = NotCalled
    /\ plkOut' = IF id \in NewProofCases
                 THEN Returns(Values(NIL, NIL, NIL, EmptyProof(id), NIL))
                 ELSE NotImplemented
    /\ UNCHANGED <<srsVars, cfgVars, regVars, tstVars, prvVars, edVars, goVars>>

\* plonk.NewVerifyingKey(curveID)
NewVerifyingKey(id) ==
    /\ PlkCall("NewVerifyingKey", Args("none", "none", "none", id))
    /\ plkImpl' = NotCalled
    /\ plkOut' = IF id \in NewVerifyingKeyCases
                 THEN Returns(Values(NIL, NIL, NIL, EmptyVerifyingKey(id), NIL))
                 ELSE NotImplemented
    /\ UNCHANGED <<srsVars, cfgVars, regVars, tstVars, prvVars, edVars, goVars>>

NextPlk ==
    \/ \E c \in CSTypes, k \in SRSTypes : Setup(c, k)
    \/ \E c \in CSTypes, k \in PKTypes : Prove(c, k)
    \/ \E p \in ProofTypes, k \in VKTypes, w \in VectorTypes : Verify(p, k, w)
    \/ \E id \in CurveIDs : NewCS(id)
    \/ \E id \in CurveIDs : NewProvingKey(id)
    \/ \E id \in CurveIDs : NewProof(id)
    \/ \E id \in CurveIDs : NewVerifyingKey(id)

----------------------------------------------------------------------------
(* package test: the Assert helper and its compilation cache *)

\* decimal digits, as fmt.Sprintf("%d") writes a number that is not negative
DigitChar(d) == <<"0", "1", "2", "3", "4", "5", "6", "7", "8", "9">>[d + 1]
RECURSIVE Digits(_)
Digits(n) == IF n < 10 THEN <<DigitChar(n)>>
             ELSE Digits(n \div 10) \o <<DigitChar(n % 10)>>

\* ecc.ID values the tests run on: BN254
BN254 == 1
TestCurves == {BN254}

\* backend.ID values: GROTH16, PLONK, PLONKFRI, and UNKNOWN
GROTH16 == 1
PLONK == 2
PLONKFRI == 3
UnknownBackend == 0
TestBackends == {GROTH16, PLONK, PLONKFRI}

\* circuits: reflect.TypeOf(circuit).String() as a string of characters, the
\* address the pointer holds, and whether the circuit is a pointer at all
Circuits ==
    {[type |-> <<"*", "C">>, addr |-> 12, ptr |-> TRUE],
     [type |-> <<"*", "C", "1">>, addr |-> 2, ptr |-> TRUE],
     [type |-> <<"C">>, addr |-> 0, ptr |-> FALSE]}

\* the arguments of a compile call
CompileArgs(circuit, curveID, backendID) ==
    [circuit |-> circuit, curveID |-> curveID, backendID |-> backendID]

\* a constraint.ConstraintSystem object: its identity and its content
NilCS == [id |-> 0, shape |-> NIL]
NewCSObject(id, shape) == [id |-> id, shape |-> shape]

\* what a run of frontend.Compile yields: a constraint system of some content,
\* or an error
Shapes == {"s1", "s2"}
CompileError == "errCompile"
AllCompilerOutcomes ==
    [first : Shapes \cup {CompileError}, second : Shapes \cup {CompileError}]
\* the second run is made only when the first gave a system, and which of two
\* differing contents comes first makes no difference
CompilerOutcomes ==
    {o \in AllCompilerOutcomes :
        /\ o.first = CompileError => o.second = CompileError
        /\ o.first # "s2"}

\* the errors of package test and of getCircuitAddr
ErrCompilationNotDeterministic == "compilation is not deterministic"
ErrNotPointer == "frontend.Circuit methods must be defined on pointer receiver"

\* an error value: its message and the error it wraps (%w)
NoError == [msg |-> NIL, wraps |-> NIL]
ErrorOf(msg) == [msg |-> msg, wraps |-> NIL]
Wrapped(sentinel, cause) == [msg |-> cause, wraps |-> sentinel]
\* errors.Is(e, sentinel)
ErrorIs(e, sentinel) == e # NoError /\ (e.msg = sentinel \/ e.wraps = sentinel)

\* compile, line 417: fmt.Sprintf("%d%d%s%d", curveID, backendID, type, addr)
Key(a) ==
    Digits(a.curveID) \o Digits(a.backendID) \o a.circuit.type \o Digits(a.circuit.addr)

\* reflect.DeepEqual(ccs, _ccs): the contents are compared, not the pointers
DeepEqual(c1, c2) == c1.shape = c2.shape

\* variant: an error of the first compilation is reported as non-determinism
FirstErrorAsNonDeterministic(e) == Wrapped(ErrCompilationNotDeterministic, e)

\* compile, lines 439-441: return nil, err
FirstError(e) == ErrorOf(e)

\* variant: the first system is cached before the two are compared
CompiledAfterMismatchStored(cache, key, cs) == MapPut(cache, key, cs)

\* compile, lines 448-450: the two systems differ; return nil and
\* ErrCompilationNotDeterministic, the map is not written
CompiledAfterMismatch(cache, key, cs) == cache

\* the result of a compile call: what it returns, the cache afterwards, the
\* number of runs of the compiler with what each run yielded, and the next
\* free object identity. cache is assert.compiled, o what the compiler
\* yields when run, next the identity of the next object allocated.
CompileResult(cache, a, o, next) ==
    LET key == Key(a)
        oo == o
        base == [ccs |-> NilCS, err |-> NoError, panic |-> FALSE, hit |-> FALSE,
                 cache |-> cache, runs |-> 0, next |-> next,
                 first |-> NIL, second |-> NIL]
    IN
    IF ~a.circuit.ptr
    THEN [base EXCEPT !.err = ErrorOf(ErrNotPointer)]
    ELSE IF key \in DOMAIN cache
    THEN [base EXCEPT !.ccs = cache[key], !.hit = TRUE]
    ELSE IF a.backendID \notin TestBackends
    THEN [base EXCEPT !.panic = TRUE]
    ELSE IF oo.first = CompileError
    THEN [base EXCEPT !.err = FirstError(CompileError), !.runs = 1,
                      !.first = oo.first]
    ELSE IF oo.second = CompileError
    THEN [base EXCEPT !.err = Wrapped(ErrCompilationNotDeterministic, CompileError),
                      !.runs = 2, !.next = next + 1,
                      !.first = oo.first, !.second = oo.second]
    ELSE IF ~DeepEqual(NewCSObject(next, oo.first), NewCSObject(next + 1, oo.second))
    THEN [base EXCEPT !.err = ErrorOf(ErrCompilationNotDeterministic),
                      !.cache = CompiledAfterMismatch(cache, key, NewCSObject(next, oo.first)),
                      !.runs = 2, !.next = next + 2,
                      !.first = oo.first, !.second = oo.second]
    ELSE [base EXCEPT !.ccs = NewCSObject(next, oo.first),
                      !.cache = MapPut(cache, key, NewCSObject(next, oo.first)),
                      !.runs = 2, !.next = next + 2,
                      !.first = oo.first, !.second = oo.second]

\* the Assert objects: the map each holds in compiled, and the Assert made by
\* NewAssert it descends from
NoAssert == 0
AssertObject(ref, root) == [compiled |-> ref, root |-> root]

\* the last call of compile: its arguments and how it ended
NoCompileCall ==
    [assert |-> NoAssert, args |-> CompileArgs([type |-> <<>>, addr |-> 0, ptr |-> FALSE], 0, 0),
     ccs |-> NilCS, err |-> NoError, panic |-> FALSE, hit |-> FALSE, runs |-> 0,
     first |-> NIL, second |-> NIL]

\* variant: Run gives the Assert of the subtest a map of its own
RunAssertFresh(parent, heap) ==
    LET ref == Cardinality(DOMAIN heap) + 1 IN
    [assert |-> AssertObject(ref, parent.root), heap |-> MapPut(heap, ref, EmptyMap)]

\* Run, line 74: assert := &Assert{t, require.New(t), assert.compiled}
RunAssert(parent, heap) ==
    [assert |-> AssertObject(parent.compiled, parent.root), heap |-> heap]

InitTst ==
    /\ tAsserts = <<>>
    /\ tCompiled = EmptyMap
    /\ tNext = 1
    /\ tRuns = 0
    /\ tCalls = 0
    /\ tLast = NoCompileCall
    /\ tDone = {}
    /\ tFailed = {}

\* a panic nothing recovers ends the test binary
TstRunning == ~tLast.panic

\* NewAssert(t), line 61
NewAssert ==
    /\ TstRunning
    /\ Len(tAsserts) < Cardinality(Tests)
    /\ LET ref == Cardinality(DOMAIN tCompiled) + 1 IN
       /\ tCompiled' = MapPut(tCompiled, ref, EmptyMap)
       /\ tAsserts' = Append(tAsserts, AssertObject(ref, Len(tAsserts) + 1))
    /\ UNCHANGED <<tNext, tRuns, tCalls, tLast, tDone, tFailed>>
    /\ UNCHANGED <<srsVars, cfgVars, regVars, plkVars, prvVars, edVars, goVars>>

\* assert.Run(fn, descs...), lines 66-76: the Assert fn is called with
Run(a) ==
    /\ TstRunning
    /\ Len(tAsserts) < Cardinality(Tests)
    /\ LET r == RunAssert(tAsserts[a], tCompiled) IN
       /\ tCompiled' = r.heap
       /\ tAsserts' = Append(tAsserts, r.assert)
    /\ UNCHANGED <<tNext, tRuns, tCalls, tLast, tDone, tFailed>>
    /\ UNCHANGED <<srsVars, cfgVars, regVars, plkVars, prvVars, edVars, goVars>>

\* assert.compile(circuit, curveID, backendID, compileOpts), lines 411-456,
\* where the compiler yields o when it is run
Compile(a, args, o) ==
    /\ TstRunning
    /\ tCalls < MaxCompileCalls
    /\ tCalls' = tCalls + 1
    /\ LET ref == tAsserts[a].compiled
           r == CompileResult(tCompiled[ref], args, o, tNext)
       IN
       /\ tCompiled' = [tCompiled EXCEPT ![ref] = r.cache]
       /\ tNext' = r.next
       /\ tRuns' = tRuns + r.runs
       /\ tLast' = [assert |-> a, args |-> args, ccs |-> r.ccs, err |-> r.err,
                    panic |-> r.panic, hit |-> r.hit, runs |-> r.runs,
                    first |-> r.first, second |-> r.second]
       /\ tDone' = IF r.ccs # NilCS
                   THEN tDone \cup {[assert |-> a, root |-> tAsserts[a].root,
                                     args |-> args, ccs |-> r.ccs]}
                   ELSE tDone
       /\ tFailed' = IF r.err # NoError /\ args.circuit.ptr
                     THEN tFailed \cup {[map |-> ref, key |-> Key(args)]}
                     ELSE tFailed
    /\ UNCHANGED tAsserts
    /\ UNCHANGED <<srsVars, cfgVars, regVars, plkVars, prvVars, edVars, goVars>>

NextTst ==
    \/ NewAssert
    \/ \E a \in 1..Len(tAsserts) : Run(a)
    \/ \E a \in 1..Len(tAsserts), c \in Circuits, id \in TestCurves,
          b \in TestBackends \cup {UnknownBackend}, o \in CompilerOutcomes :
          Compile(a, CompileArgs(c, id, b), o)

----------------------------------------------------------------------------
(* package test: ProverSucceeded, ProverFailed, Fuzz and fuzzer.  A test   *)
(* calls one of the three on an Assert with test.NoSerialization(); each   *)
(* (curve, backend) pair runs in a subtest started with assert.Run.        *)

\* ProverSucceeded, line 195: assert.Fuzz(circuit, 5, opts...)
ProverFuzzCount == 5

\* Fuzz, line 336
Fillers == <<"randomFiller", "binaryFiller", "seedFiller">>

\* Fuzz, lines 350-356: the number of calls of fuzzer in one subtest, and the
\* filler the k-th of them is given
NbSamples(fuzzCount) == 1 + fuzzCount * Len(Fillers)
FillerOf(k) == IF k = 1 THEN "zeroFiller" ELSE Fillers[((k - 2) % Len(Fillers)) + 1]

\* the circuits the helpers are given: a pointer, or a circuit by value
HelperCircuits == {c \in Circuits : c.addr # 2}

\* what the compiler yields when a helper has it run: the same system twice,
\* or an error
HelperCompilerOutcomes == {o \in CompilerOutcomes : o.first = o.second}

\* opt.backends, as the options of the test leave it
OptBackends == {<<GROTH16, PLONK, PLONKFRI>>, <<PLONK>>}

\* what a stage returns: no error, or an error
StageOutcomes == {"ok", "err"}

\* lazySchema, lines 292-301: schema.New(circuit, tVariable) of a circuit that
\* compiled gives a schema; of one that did not it may fail
SchemaOutcomes(compiled) == IF compiled THEN {"ok"} ELSE {"ok", "err"}

\* fuzzer, lines 372-383: frontend.NewWitness, frontend.NewSchema and w.ToJSON
\* of a sample the evaluator has just run, on a circuit that compiled
WitnessJSONOutcomes == {"ok"}

\* variant: checkError returns whatever the error
CheckErrorIgnored(e, next, schema) == next

\* checkError, lines 499-516: returns when err is nil; else serialises the
\* witness, for which lazyS() may panic, and calls FailNow.  The position of
\* the subtest afterwards.
CheckError(e, next, schema) ==
    IF e = "ok" THEN next
    ELSE IF schema = "err" THEN "panicked" ELSE "failed"

\* variant: mustError returns whatever the error
MustErrorIgnored(e, next, schema) == next

\* mustError, lines 482-496: returns when err is set; else as checkError
MustError(e, next, schema) ==
    IF e # "ok" THEN next
    ELSE IF schema = "err" THEN "panicked" ELSE "failed"

\* lines 216 and 236: ccs.IsSolved is given the witness made with
\* frontend.PublicOnly().  With no secret input that is the whole witness;
\* with one, the witness lacks the secret values and solving returns an error.
SolvesPublicOnly(secret, full) == IF secret THEN "err" ELSE full

\* ProverSucceeded, lines 148-186, and ProverFailed, line 236: the stage a
\* subtest runs first after t.Parallel()
FirstParallelStage(test, b) ==
    IF test = "ProverFailed" THEN "ccs.IsSolved"
    ELSE IF b = PLONK THEN "NewKZGSRS" ELSE "Setup"

\* an entry of the history of a subtest: the stage run, whether it returned
\* an error, and for ccs.IsSolved of ProverFailed what solving the whole
\* invalid witness gives
StageRun(stage, e, full) == [stage |-> stage, res |-> e, full |-> full]

\* variant: the verdicts never count as mismatched
MismatchNever(ev, ec) == FALSE

\* fuzzer, line 371: (errVars == nil) != (errConsts == nil)
Mismatch(ev, ec) == (ev = "ok") # (ec = "ok")

\* fuzzer, lines 385-387: the three lines logged
MismatchLog(ev, ec, k) ==
    <<[key |-> "errVars", val |-> ev], [key |-> "errConsts", val |-> ec],
      [key |-> "fuzzer witness", val |-> FillerOf(k)]>>

NoSample == [vars |-> NIL, consts |-> NIL, cs |-> NIL]

InitPrv ==
    /\ pTest = NIL
    /\ pAssert = NoAssert
    /\ pCircuit = NIL
    /\ pSecret = FALSE
    /\ pBackends = <<>>
    /\ pFuzzing = FALSE
    /\ pParent = "idle"
    /\ pIdx = 0
    /\ pPc = <<>>
    /\ pTrace = <<>>
    /\ fCount = 0
    /\ fIdx = 0
    /\ fPc = <<>>
    /\ fSamples = 0
    /\ fLast = NoSample
    /\ fLog = <<>>

\* a panic nothing recovers ends the test binary
PrvRunning ==
    /\ TstRunning
    /\ \A i \in DOMAIN pPc : pPc[i] # "panicked"
    /\ \A i \in DOMAIN fPc : fPc[i] # "panicked"

\* the call of Assert.compile a subtest makes: the Assert of a subtest is made
\* by Run from the Assert the helper was called on
SubCompileResult(b, o) ==
    LET sub == RunAssert(tAsserts[pAssert], tCompiled).assert IN
    CompileResult(tCompiled[sub.compiled], CompileArgs(pCircuit, BN254, b), o, tNext)

\* the effect of that call on the cache and on the history of compile
SubCompileEffect(b, o) ==
    LET sub == RunAssert(tAsserts[pAssert], tCompiled).assert
        args == CompileArgs(pCircuit, BN254, b)
        r == SubCompileResult(b, o)
    IN
    /\ tCompiled' = [tCompiled EXCEPT ![sub.compiled] = r.cache]
    /\ tNext' = r.next
    /\ tRuns' = tRuns + r.runs
    /\ tLast' = [assert |-> pAssert, args |-> args, ccs |-> r.ccs, err |-> r.err,
                 panic |-> r.panic, hit |-> r.hit, runs |-> r.runs,
                 first |-> r.first, second |-> r.second]
    /\ tDone' = IF r.ccs # NilCS
                THEN tDone \cup {[assert |-> pAssert, root |-> tAsserts[pAssert].root,
                                  args |-> args, ccs |-> r.ccs]}
                ELSE tDone
    /\ tFailed' = IF r.err # NoError /\ args.circuit.ptr
                  THEN tFailed \cup {[map |-> sub.compiled, key |-> Key(args)]}
                  ELSE tFailed
    /\ UNCHANGED <<tAsserts, tCalls>>

\* the start of ProverSucceeded or ProverFailed, lines 93-103 and 209-217:
\* the options, then frontend.NewWitness of the assignment (w is what it
\* returns) with assert.NoError
StartHelper(test, a, c, secret, backs, fuzzing, w) ==
    /\ PrvRunning
    /\ pTest = NIL
    /\ pTest' = test
    /\ pAssert' = a
    /\ pCircuit' = c
    /\ pSecret' = secret
    /\ pBackends' = backs
    /\ pFuzzing' = fuzzing
    /\ pParent' = IF w = "ok" THEN "loop" ELSE "failed"
    /\ pIdx' = 1
    /\ pPc' = [i \in 1..Len(backs) |-> "notrun"]
    /\ pTrace' = [i \in 1..Len(backs) |-> <<>>]
    /\ UNCHANGED <<fCount, fIdx, fPc, fSamples, fLast, fLog>>
    /\ UNCHANGED <<srsVars, cfgVars, regVars, plkVars, tstVars, edVars, goVars>>

\* assert.ProverSucceeded(circuit, validAssignment, opts...), lines 91-198
ProverSucceeded(a, c, backs, fuzzing, w) ==
    StartHelper("ProverSucceeded", a, c, FALSE, backs, fuzzing, w)

\* assert.ProverFailed(circuit, invalidAssignment, opts...), lines 207-241
ProverFailed(a, c, secret, backs, w) ==
    StartHelper("ProverFailed", a, c, secret, backs, FALSE, w)

\* the step of subtest i at position pos: it runs stage, which returns e;
\* then goes to position to, or gives the turn back to the parent
SubStep(i, pos, stage, e, full, to) ==
    /\ PrvRunning
    /\ i \in DOMAIN pPc
    /\ pPc[i] = pos
    /\ pPc' = [pPc EXCEPT ![i] = to]
    /\ pTrace' = [pTrace EXCEPT ![i] = Append(@, StageRun(stage, e, full))]
    /\ UNCHANGED <<pTest, pAssert, pCircuit, pSecret, pBackends, pFuzzing, pParent>>
    /\ UNCHANGED <<fCount, fIdx, fPc, fSamples, fLast, fLog>>
    /\ UNCHANGED <<srsVars, cfgVars, regVars, plkVars, edVars, goVars>>

\* lines 134-140 and 222-229: assert.Run starts the subtest of pair i, which
\* calls assert.compile and checkError
SubCompile(i, o, schema) ==
    LET r == SubCompileResult(pBackends[i], o)
        e == IF r.err = NoError THEN "ok" ELSE "err"
        to == IF r.panic THEN "notrun" ELSE CheckError(e, "IsSolved", schema)
    IN
    /\ pParent = "loop"
    /\ pIdx = i
    /\ schema \in SchemaOutcomes(e = "ok")
    /\ SubStep(i, "notrun", "compile", IF r.panic THEN "panic" ELSE e, NIL, to)
    /\ SubCompileEffect(pBackends[i], o)
    /\ pIdx' = IF to = "IsSolved" THEN i ELSE i + 1

\* lines 143-146: IsSolved(circuit, validAssignment, field), checkError and
\* t.Parallel(); lines 232-235: the same of the invalid assignment with mustError
SubIsSolved(i, e) ==
    LET to == IF pTest = "ProverFailed"
              THEN MustError(e, "parallel", "ok")
              ELSE CheckError(e, "parallel", "ok")
    IN
    /\ pParent = "loop"
    /\ pIdx = i
    /\ SubStep(i, "IsSolved", "IsSolved", e, NIL, to)
    /\ pIdx' = i + 1
    /\ UNCHANGED tstVars

\* lines 188-197 and 239-241: the loops over curves and backends end.
\* ProverSucceeded runs assert.Fuzz in a subtest if opt.fuzzing; then the
\* helper and the test function return, and the parallel subtests resume.
LoopEnd ==
    /\ PrvRunning
    /\ pParent = "loop"
    /\ pIdx > Len(pBackends)
    /\ IF pTest = "ProverSucceeded" /\ pFuzzing
       THEN /\ pParent' = "fuzz"
            /\ fCount' = ProverFuzzCount
            /\ fIdx' = 1
            /\ fPc' = [i \in 1..Len(pBackends) |-> "notrun"]
       ELSE /\ pParent' = "returned"
            /\ UNCHANGED <<fCount, fIdx, fPc>>
    /\ UNCHANGED <<pTest, pAssert, pCircuit, pSecret, pBackends, pFuzzing, pIdx, pPc, pTrace>>
    /\ UNCHANGED <<fSamples, fLast, fLog>>
    /\ UNCHANGED <<srsVars, cfgVars, regVars, plkVars, tstVars, edVars, goVars>>

\* variant: t.Parallel() returns at once
ResumesAtOnce(parent) == TRUE

\* t.Parallel(): the subtest signals its parent and pauses; it is resumed
\* when the function of the parent test has returned
Resumes(parent) == parent = "returned"

\* t.Parallel() returns in subtest i once the test function has returned
Parallel(i) ==
    /\ PrvRunning
    /\ Resumes(pParent)
    /\ i \in DOMAIN pPc
    /\ pPc[i] = "parallel"
    /\ pPc' = [pPc EXCEPT ![i] = FirstParallelStage(pTest, pBackends[i])]
    /\ UNCHANGED <<pTest, pAssert, pCircuit, pSecret, pBackends, pFuzzing, pParent, pIdx, pTrace>>
    /\ UNCHANGED <<fCount, fIdx, fPc, fSamples, fLast, fLog>>
    /\ UNCHANGED <<srsVars, cfgVars, regVars, plkVars, tstVars, edVars, goVars>>

\* lines 162-163: srs, err := NewKZGSRS(ccs); checkError(err)
SubNewKZGSRS(i, e) ==
    /\ SubStep(i, "NewKZGSRS", "NewKZGSRS", e, NIL, CheckError(e, "Setup", "ok"))
    /\ UNCHANGED <<pIdx, tstVars>>

\* lines 150-151, 165-166, 175-176: Setup of the backend; checkError(err)
SubSetup(i, e) ==
    /\ SubStep(i, "Setup", "Setup", e, NIL, CheckError(e, "Prove", "ok"))
    /\ UNCHANGED <<pIdx, tstVars>>

\* lines 155-156, 168-169, 178-179: Prove of the backend; checkError(err)
SubProve(i, e) ==
    /\ SubStep(i, "Prove", "Prove", e, NIL, CheckError(e, "Verify", "ok"))
    /\ UNCHANGED <<pIdx, tstVars>>

\* lines 158-159, 171-172, 181-182: Verify of the backend; checkError(err);
\* the subtest function returns
SubVerify(i, e) ==
    /\ SubStep(i, "Verify", "Verify", e, NIL, CheckError(e, "passed", "ok"))
    /\ UNCHANGED <<pIdx, tstVars>>

\* ProverFailed, lines 236-237: err = ccs.IsSolved(invalidPublicWitness);
\* mustError(err); the subtest function returns.  full is what solving the
\* whole invalid witness gives.
SubCcsIsSolved(i, full) ==
    LET e == SolvesPublicOnly(pSecret, full) IN
    /\ SubStep(i, "ccs.IsSolved", "ccs.IsSolved", e, full, MustError(e, "passed", "ok"))
    /\ UNCHANGED <<pIdx, tstVars>>

\* assert.Fuzz(circuit, fuzzCount, opts...), lines 328-338, called by a test
Fuzz(a, c, backs) ==
    /\ PrvRunning
    /\ pTest = NIL
    /\ pTest' = "Fuzz"
    /\ pAssert' = a
    /\ pCircuit' = c
    /\ pBackends' = backs
    /\ pParent' = "fuzz"
    /\ fCount' = FuzzCount
    /\ fIdx' = 1
    /\ fPc' = [i \in 1..Len(backs) |-> "notrun"]
    /\ UNCHANGED <<pSecret, pFuzzing, pIdx, pPc, pTrace, fSamples, fLast, fLog>>
    /\ UNCHANGED <<srsVars, cfgVars, regVars, plkVars, tstVars, edVars, goVars>>

\* Fuzz, lines 342-347: assert.Run starts the subtest of pair i, which calls
\* assert.compile and assert.NoError
FuzzCompile(i, o) ==
    LET r == SubCompileResult(pBackends[i], o) IN
    /\ PrvRunning
    /\ pParent = "fuzz"
    /\ fIdx = i
    /\ i \in DOMAIN fPc
    /\ fPc[i] = "notrun"
    /\ SubCompileEffect(pBackends[i], o)
    /\ fPc' = [fPc EXCEPT ![i] = IF r.panic THEN "notrun"
                                 ELSE IF r.err = NoError THEN "fuzzer" ELSE "failed"]
    /\ fIdx' = IF r.err = NoError /\ ~r.panic THEN i ELSE i + 1
    /\ fSamples' = 0
    /\ fLast' = NoSample
    /\ fLog' = <<>>
    /\ UNCHANGED <<pTest, pAssert, pCircuit, pSecret, pBackends, pFuzzing, pParent, pIdx, pPc, pTrace, fCount>>
    /\ UNCHANGED <<srsVars, cfgVars, regVars, plkVars, edVars, goVars>>

\* the error an evaluation of fuzzer returns, as assert.Log prints it
ErrString(e) == IF e = "ok" THEN "<nil>" ELSE "error"

\* assert.fuzzer(f, circuit, w, b, curve, &opt), lines 364-400, for the next
\* sample of subtest i: ev and ec are what IsSolved returns with the values as
\* variables and as constants, cs what ccs.IsSolved returns in
\* solvingSucceeded or solvingFailed; wj is whether the witness of a
\* mismatch can be built and written as JSON.  solvingSucceeded and
\* solvingFailed call assert.compile first (lines 265 and 312), where the
\* compiler yields o if it is run, and evaluate the sample once more, which
\* gives ev again.
Fuzzer(i, ev, ec, cs, wj, o) ==
    LET k == fSamples + 1
        r == SubCompileResult(pBackends[i], o)
        compiled == IF r.err = NoError THEN "ok" ELSE "err"
        solved == IF ev = "ok" THEN CheckError(cs, "fuzzer", "ok")
                  ELSE MustError(cs, "fuzzer", "ok")
        follows == IF r.panic THEN "panicked"
                   ELSE IF compiled = "err" THEN CheckError(compiled, "fuzzer", "ok")
                   ELSE solved
        to == IF Mismatch(ev, ec)
              THEN (IF wj = "ok" THEN "failed" ELSE "panicked")
              ELSE IF follows # "fuzzer" THEN follows
              ELSE IF k = NbSamples(fCount) THEN "passed" ELSE "fuzzer"
    IN
    /\ PrvRunning
    /\ pParent = "fuzz"
    /\ fIdx = i
    /\ i \in DOMAIN fPc
    /\ fPc[i] = "fuzzer"
    /\ wj \in WitnessJSONOutcomes
    /\ fSamples' = k
    /\ fLast' = [vars |-> ev, consts |-> ec,
                 cs |-> IF Mismatch(ev, ec) \/ r.panic \/ compiled = "err"
                        THEN NIL ELSE cs]
    /\ fLog' = IF Mismatch(ev, ec) /\ wj = "ok"
               THEN fLog \o MismatchLog(ErrString(ev), ErrString(ec), k)
               ELSE fLog
    /\ fPc' = [fPc EXCEPT ![i] = to]
    /\ fIdx' = IF to = "fuzzer" THEN i ELSE i + 1
    /\ IF Mismatch(ev, ec) THEN UNCHANGED tstVars
       ELSE SubCompileEffect(pBackends[i], o)
    /\ UNCHANGED <<pTest, pAssert, pCircuit, pSecret, pBackends, pFuzzing, pParent, pIdx, pPc, pTrace, fCount>>
    /\ UNCHANGED <<srsVars, cfgVars, regVars, plkVars, edVars, goVars>>

\* Fuzz, line 361: the loops end and Fuzz returns; then the test function
\* returns.  The subtest run last is over.
FuzzEnd ==
    /\ PrvRunning
    /\ pParent = "fuzz"
    /\ fIdx > Len(pBackends)
    /\ pParent' = "returned"
    /\ fSamples' = 0
    /\ fLast' = NoSample
    /\ fLog' = <<>>
    /\ UNCHANGED <<pTest, pAssert, pCircuit, pSecret, pBackends, pFuzzing, pIdx, pPc, pTrace>>
    /\ UNCHANGED <<fCount, fIdx, fPc>>
    /\ UNCHANGED <<srsVars, cfgVars, regVars, plkVars, tstVars, edVars, goVars>>

\* a test function makes its Assert first: assert := test.NewAssert(t)
TestStart == Len(tAsserts) = 0 /\ NewAssert

NextPrv ==
    \/ TestStart
    \/ \E a \in 1..Len(tAsserts), c \in HelperCircuits, backs \in OptBackends,
          fuzzing \in BOOLEAN, w \in StageOutcomes :
          ProverSucceeded(a, c, backs, fuzzing, w)
    \/ \E a \in 1..Len(tAsserts), c \in HelperCircuits, secret \in BOOLEAN,
          backs \in OptBackends, w \in StageOutcomes :
          ProverFailed(a, c, secret, backs, w)
    \/ \E a \in 1..Len(tAsserts), c \in HelperCircuits, backs \in OptBackends :
          Fuzz(a, c, backs)
    \/ \E i \in DOMAIN pPc, o \in HelperCompilerOutcomes, schema \in StageOutcomes :
          SubCompile(i, o, schema)
    \/ \E i \in DOMAIN pPc, e \in StageOutcomes : SubIsSolved(i, e)
    \/ LoopEnd
    \/ \E i \in DOMAIN pPc : Parallel(i)
    \/ \E i \in DOMAIN pPc, e \in StageOutcomes : SubNewKZGSRS(i, e)
    \/ \E i \in DOMAIN pPc, e \in StageOutcomes : SubSetup(i, e)
    \/ \E i \in DOMAIN pPc, e \in StageOutcomes : SubProve(i, e)
    \/ \E i \in DOMAIN pPc, e \in StageOutcomes : SubVerify(i, e)
    \/ \E i \in DOMAIN pPc, full \in StageOutcomes : SubCcsIsSolved(i, full)
    \/ \E i \in DOMAIN fPc, o \in HelperCompilerOutcomes : FuzzCompile(i, o)
    \/ \E i \in DOMAIN fPc, ev \in StageOutcomes, ec \in StageOutcomes,
          cs \in StageOutcomes, wj \in StageOutcomes,
          o \in HelperCompilerOutcomes : Fuzzer(i, ev, ec, cs, wj, o)
    \/ FuzzEnd

----------------------------------------------------------------------------
(* package eddsa: Verify, on a small twisted Edwards curve *)

\* curve.Params(): the curve a*x^2 + y^2 = 1 + d*x^2*y^2 over the integers
\* modulo p; it has 20 points
EdCurve == [p |-> 13, a |-> 12, d |-> 6]

\* arithmetic of the base field
FAdd(x, y) == (x + y) % EdCurve.p
FSub(x, y) == (x + EdCurve.p - y) % EdCurve.p
FMul(x, y) == (x * y) % EdCurve.p
FInv(x) == CHOOSE y \in 0..(EdCurve.p - 1) : x = 0 \/ FMul(x, y) = 1
FDiv(x, y) == FMul(x, FInv(y))

\* twistededwards.Point
Point(x, y) == [X |-> x, Y |-> y]
OnCurve(pt) ==
    FAdd(FMul(EdCurve.a, FMul(pt.X, pt.X)), FMul(pt.Y, pt.Y))
        = FAdd(1, FMul(EdCurve.d, FMul(FMul(pt.X, pt.X), FMul(pt.Y, pt.Y))))
EdPoints ==
    {pt \in [X : 0..(EdCurve.p - 1), Y : 0..(EdCurve.p - 1)] : OnCurve(pt)}

\* curve.Neg, curve.Add and curve.Double
EdNeg(pt) == Point(FSub(0, pt.X), pt.Y)
EdAdd(p1, p2) ==
    LET t == FMul(EdCurve.d, FMul(FMul(p1.X, p2.X), FMul(p1.Y, p2.Y))) IN
    Point(FDiv(FAdd(FMul(p1.X, p2.Y), FMul(p1.Y, p2.X)), FAdd(1, t)),
          FDiv(FSub(FMul(p1.Y, p2.Y), FMul(EdCurve.a, FMul(p1.X, p2.X))), FSub(1, t)))
EdDouble(pt) ==
    LET u == FMul(pt.X, pt.Y)
        av == FMul(EdCurve.a, FMul(pt.X, pt.X))
        w == FMul(pt.Y, pt.Y)
    IN
    Point(FDiv(FAdd(u, u), FAdd(av, w)), FDiv(FSub(w, av), FSub(2, FAdd(av, w))))

\* a big.Int: its sign and its magnitude as 64-bit words, the low word first
BigInt(neg, abs) == [neg |-> neg, abs |-> abs]

\* curve.Params().Cofactor, for the curves Verify is given: 1, 4, 8, 12,
\* 2^64 + 4, 2^64 and -4
Cofactors ==
    {BigInt(FALSE, <<1>>), BigInt(FALSE, <<4>>), BigInt(FALSE, <<8>>),
     BigInt(FALSE, <<12>>), BigInt(FALSE, <<4, 1>>), BigInt(FALSE, <<0, 1>>),
     BigInt(TRUE, <<4>>)}

\* variant: every cofactor counts as fitting in 64 bits
IsUint64Always(x) == TRUE

\* big.Int.IsUint64 of line 75
IsUint64(x) == ~x.neg /\ Len(x.abs) <= 1

\* big.Int.Uint64 of line 80: the low word
Uint64(x) == IF Len(x.abs) = 0 THEN 0 ELSE x.abs[1]

\* variant: one doubling more for cofactor 4
DoublingsOneMore(cofactor) ==
    IF cofactor = 4 THEN 3 ELSE IF cofactor = 8 THEN 3 ELSE 0

\* the switch of lines 81-88: the number of nested calls of curve.Double
Doublings(cofactor) ==
    IF cofactor = 4 THEN 2 ELSE IF cofactor = 8 THEN 3 ELSE 0

\* curve.Double applied n times
RECURSIVE DoubleTimes(_, _)
DoubleTimes(pt, n) == IF n = 0 THEN pt ELSE EdDouble(DoubleTimes(pt, n - 1))

\* what Verify has returned
NotReturned == "not returned"
ReturnsNil == "nil"
ErrInvalidCofactor == "invalid cofactor"

\* a line of the logger: its level and its message
LogLine(level, msg) == [level |-> level, msg |-> msg]

\* a call of curve.API().AssertIsEqual
AssertIsEqual(v, c) == [value |-> v, equals |-> c]

InitEd ==
    /\ edPc = "idle"
    /\ edCofactor = BigInt(FALSE, <<>>)
    /\ edDiff = Point(0, 1)
    /\ edQ = Point(0, 1)
    /\ edDoubles = 0
    /\ edLog = <<>>
    /\ edChecks = <<>>
    /\ edRet = NotReturned

\* Verify(curve, sig, msg, pubKey, hash), lines 50-71: q is the point
\* DoubleBaseScalarMul returns, r is sig.R; Q = Add(Neg(Q), sig.R)
EddsaVerify(cof, q, r) ==
    /\ edPc = "idle"
    /\ edPc' = "cofactor"
    /\ edCofactor' = cof
    /\ edDiff' = EdAdd(EdNeg(q), r)
    /\ edQ' = EdAdd(EdNeg(q), r)
    /\ UNCHANGED <<edDoubles, edLog, edChecks, edRet>>
    /\ UNCHANGED <<srsVars, cfgVars, regVars, plkVars, tstVars, prvVars, goVars>>

\* Verify, lines 74-88: the check of the cofactor and the switch
ClearCofactor ==
    /\ edPc = "cofactor"
    /\ IF ~IsUint64(edCofactor)
       THEN /\ edLog' = Append(edLog, LogLine("error", ErrInvalidCofactor))
            /\ edRet' = ErrInvalidCofactor
            /\ edPc' = "returned"
            /\ UNCHANGED <<edQ, edDoubles>>
       ELSE LET n == Doublings(Uint64(edCofactor)) IN
            /\ edQ' = DoubleTimes(edQ, n)
            /\ edDoubles' = n
            /\ edLog' = IF Uint64(edCofactor) \in {4, 8} THEN edLog
                        ELSE Append(edLog, LogLine("warn", "curve cofactor is not implemented"))
            /\ edPc' = "assert"
            /\ UNCHANGED edRet
    /\ UNCHANGED <<edCofactor, edDiff, edChecks>>
    /\ UNCHANGED <<srsVars, cfgVars, regVars, plkVars, tstVars, prvVars, goVars>>

\* Verify, lines 90-93: the two assertions and return nil
AssertIdentity ==
    /\ edPc = "assert"
    /\ edChecks' = edChecks \o <<AssertIsEqual(edQ.X, 0), AssertIsEqual(edQ.Y, 1)>>
    /\ edRet' = ReturnsNil
    /\ edPc' = "returned"
    /\ UNCHANGED <<edCofactor, edDiff, edQ, edDoubles, edLog>>
    /\ UNCHANGED <<srsVars, cfgVars, regVars, plkVars, tstVars, prvVars, goVars>>

NextEd ==
    \/ \E cof \in Cofactors, q \in EdPoints, r \in EdPoints : EddsaVerify(cof, q, r)
    \/ ClearCofactor
    \/ AssertIdentity

----------------------------------------------------------------------------
(* package test: Assert.compile called by two goroutines.  A test makes an *)
(* Assert with NewAssert and starts two subtests with assert.Run; each     *)
(* subtest calls t.Parallel() and then compile on the Assert Run gave it.  *)
(* A map access takes time: it begins and it ends.  Two accesses that      *)
(* overlap, one of them a write, are a data race: the Go runtime may throw *)
(* ("concurrent map read and map write", "concurrent map writes"), which   *)
(* ends the test binary, or the access may complete with either view of    *)
(* the map.                                                                *)

Goroutines == {"g1", "g2"}

\* NewAssert, line 61, then Run, line 74, once for each subtest
GoParent == AssertObject(1, 1)
GoRun1 == RunAssert(GoParent, MapPut(EmptyMap, 1, EmptyMap))
GoRun2 == RunAssert(GoParent, GoRun1.heap)
GoAssert(g) == IF g = "g1" THEN GoRun1.assert ELSE GoRun2.assert

\* where a goroutine is inside a map access: the read of line 419, the
\* write of line 453
InMapRead == {"lookup"}
InMapWrite == {"store"}
InMapAccess == InMapRead \cup InMapWrite

\* how the test binary ends
GoRunning == "running"
GoPanicked == "panic: not implemented"
GoThrown == "fatal error: concurrent map access"

\* the compiler outcome passed where compile returns before running it
NotRun == CHOOSE o \in CompilerOutcomes : TRUE

\* variant: the accesses to compiled are serialized
MapAccessSerialized(g) == \A h \in Goroutines \ {g} : gPc[h] \notin InMapAccess

\* Run, lines 70-73, and compile, lines 419 and 453: compiled is read and
\* written with no lock held, so an access never waits
MapAccess(g) == TRUE

\* the accesses of other goroutines to the map of g that are under way
OthersIn(g, pcs) ==
    {h \in Goroutines \ {g} :
        /\ gPc[h] \in pcs
        /\ GoAssert(h).compiled = GoAssert(g).compiled}

\* what a read of the map may yield: what the map holds; under a race also
\* nothing, or a throw
ReadOutcomes(g) == IF gRaced[g] THEN {"now", "miss", "throw"} ELSE {"now"}

\* what a write of the map may do: store the entry; under a race also lose
\* it, or throw
WriteOutcomes(g) == IF gRaced[g] THEN {"applied", "lost", "throw"} ELSE {"applied"}

InitGo ==
    /\ gPc = [g \in Goroutines |-> "idle"]
    /\ gArgs = [g \in Goroutines |-> NoCompileCall.args]
    /\ gCcs = [g \in Goroutines |-> NilCS]
    /\ gErr = [g \in Goroutines |-> NoError]
    /\ gRuns = [g \in Goroutines |-> 0]
    /\ gHeap = GoRun2.heap
    /\ gNext = 1
    /\ gCalls = 0
    /\ gRaced = [g \in Goroutines |-> FALSE]
    /\ gFatal = GoRunning

\* compile, lines 412-417: getCircuitAddr, and the key
GoCompile(g, args) ==
    /\ gFatal = GoRunning
    /\ gPc[g] = "idle"
    /\ gCalls < MaxGoCalls
    /\ gCalls' = gCalls + 1
    /\ gArgs' = [gArgs EXCEPT ![g] = args]
    /\ gCcs' = [gCcs EXCEPT ![g] = NilCS]
    /\ gRuns' = [gRuns EXCEPT ![g] = 0]
    /\ LET r == CompileResult(EmptyMap, args, NotRun, gNext) IN
       IF ~args.circuit.ptr
       THEN /\ gErr' = [gErr EXCEPT ![g] = r.err]
            /\ UNCHANGED gPc
       ELSE /\ gErr' = [gErr EXCEPT ![g] = NoError]
            /\ gPc' = [gPc EXCEPT ![g] = "key"]
    /\ UNCHANGED <<gHeap, gNext, gRaced, gFatal>>
    /\ UNCHANGED <<srsVars, cfgVars, regVars, plkVars, tstVars, prvVars, edVars>>

\* compile, line 419: the read of assert.compiled[key] begins
BeginLookup(g) ==
    /\ gFatal = GoRunning
    /\ gPc[g] = "key"
    /\ MapAccess(g)
    /\ gPc' = [gPc EXCEPT ![g] = "lookup"]
    /\ gRaced' = [h \in Goroutines |->
                    IF OthersIn(g, InMapWrite) # {} /\ h \in OthersIn(g, InMapWrite) \cup {g}
                    THEN TRUE ELSE gRaced[h]]
    /\ UNCHANGED <<gArgs, gCcs, gErr, gRuns, gHeap, gNext, gCalls, gFatal>>
    /\ UNCHANGED <<srsVars, cfgVars, regVars, plkVars, tstVars, prvVars, edVars>>

\* compile, lines 419-421: the read ends; on a hit the entry is returned
EndLookup(g) ==
    /\ gFatal = GoRunning
    /\ gPc[g] = "lookup"
    /\ \E out \in ReadOutcomes(g) :
         LET ref == GoAssert(g).compiled
             seen == IF out = "miss" THEN EmptyMap ELSE gHeap[ref]
             r == CompileResult(seen, gArgs[g], NotRun, gNext)
         IN
         IF out = "throw"
         THEN /\ gFatal' = GoThrown
              /\ UNCHANGED <<gPc, gCcs>>
         ELSE /\ gFatal' = gFatal
              /\ gPc' = [gPc EXCEPT ![g] = IF r.hit THEN "idle" ELSE "build"]
              /\ gCcs' = [gCcs EXCEPT ![g] = IF r.hit THEN r.ccs ELSE NilCS]
    /\ gRaced' = [gRaced EXCEPT ![g] = FALSE]
    /\ UNCHANGED <<gArgs, gErr, gRuns, gHeap, gNext, gCalls>>
    /\ UNCHANGED <<srsVars, cfgVars, regVars, plkVars, tstVars, prvVars, edVars>>

\* compile, lines 423-450: the builder, the two runs of frontend.Compile
\* and the comparison, where the compiler yields o
Build(g, o) ==
    /\ gFatal = GoRunning
    /\ gPc[g] = "build"
    /\ LET r == CompileResult(EmptyMap, gArgs[g], o, gNext) IN
       /\ gNext' = r.next
       /\ gRuns' = [gRuns EXCEPT ![g] = r.runs]
       /\ gErr' = [gErr EXCEPT ![g] = r.err]
       /\ gCcs' = [gCcs EXCEPT ![g] = r.ccs]
       /\ gFatal' = IF r.panic THEN GoPanicked ELSE gFatal
       /\ gPc' = [gPc EXCEPT ![g] = IF r.panic THEN "build"
                                    ELSE IF r.err # NoError THEN "idle"
                                    ELSE "built"]
    /\ UNCHANGED <<gArgs, gHeap, gCalls, gRaced>>
    /\ UNCHANGED <<srsVars, cfgVars, regVars, plkVars, tstVars, prvVars, edVars>>

\* compile, line 453: the write assert.compiled[key] = ccs begins
BeginStore(g) ==
    /\ gFatal = GoRunning
    /\ gPc[g] = "built"
    /\ MapAccess(g)
    /\ gPc' = [gPc EXCEPT ![g] = "store"]
    /\ gRaced' = [h \in Goroutines |->
                    IF OthersIn(g, InMapAccess) # {} /\ h \in OthersIn(g, InMapAccess) \cup {g}
                    THEN TRUE ELSE gRaced[h]]
    /\ UNCHANGED <<gArgs, gCcs, gErr, gRuns, gHeap, gNext, gCalls, gFatal>>
    /\ UNCHANGED <<srsVars, cfgVars, regVars, plkVars, tstVars, prvVars, edVars>>

\* compile, lines 453-455: the write ends and compile returns the system
EndStore(g) ==
    /\ gFatal = GoRunning
    /\ gPc[g] = "store"
    /\ \E out \in WriteOutcomes(g) :
         LET ref == GoAssert(g).compiled IN
         CASE out = "throw" ->
                /\ gFatal' = GoThrown
                /\ UNCHANGED <<gPc, gHeap>>
           [] out = "lost" ->
                /\ gPc' = [gPc EXCEPT ![g] = "idle"]
                /\ UNCHANGED <<gHeap, gFatal>>
           [] OTHER ->
                /\ gPc' = [gPc EXCEPT ![g] = "idle"]
                /\ gHeap' = [gHeap EXCEPT ![ref] = MapPut(gHeap[ref], Key(gArgs[g]), gCcs[g])]
                /\ UNCHANGED gFatal
    /\ gRaced' = [gRaced EXCEPT ![g] = FALSE]
    /\ UNCHANGED <<gArgs, gCcs, gErr, gRuns, gNext, gCalls>>
    /\ UNCHANGED <<srsVars, cfgVars, regVars, plkVars, tstVars, prvVars, edVars>>

NextGo ==
    \/ \E g \in Goroutines, c \in Circuits, id \in TestCurves,
          b \in TestBackends \cup {UnknownBackend} :
          GoCompile(g, CompileArgs(c, id, b))
    \/ \E g \in Goroutines : BeginLookup(g)
    \/ \E g \in Goroutines : EndLookup(g)
    \/ \E g \in Goroutines, o \in CompilerOutcomes : Build(g, o)
    \/ \E g \in Goroutines : BeginStore(g)
    \/ \E g \in Goroutines : EndStore(g)


----------------------------------------------------------------------------

Init == InitSRS /\ InitCfg /\ InitReg /\ InitPlk /\ InitTst /\ InitPrv /\ InitEd
        /\ InitGo

Next == NextSRS \/ NextCfg \/ NextReg \/ NextPlk \/ NextTst \/ NextPrv \/ NextEd
        \/ NextGo

Spec == Init /\ [][Next]_vars

\* the SRS cache alone
SpecSRS == Init /\ [][NextSRS]_vars

\* the dispatch of package plonk alone
SpecPlk == Init /\ [][NextPlk]_vars

\* the compilation cache of the Assert helper alone
SpecTst == Init /\ [][NextTst]_vars

\* the helpers ProverSucceeded, ProverFailed and Fuzz alone
SpecPrv == Init /\ [][NextPrv]_vars

\* eddsa.Verify alone
SpecEd == Init /\ [][NextEd]_vars

\* compile called by two goroutines
SpecGo == Init /\ [][NextGo]_vars

\* the solver configuration alone
SpecCfg == Init /\ [][NextCfg]_vars

\* the registration of the std hints alone
SpecReg == Init /\ [][NextReg]_vars

----------------------------------------------------------------------------
(* Properties of the solver configuration, checked under SpecCfg *)

\* a step of NewConfig: it starts, or it is running and it or the option it
\* called takes a step
NewConfigStep ==
    \/ cfgPc = "idle" /\ cfgPc' = "loop"
    \/ cfgPc # "idle" /\ cfgVars' # cfgVars

\* the map of the Config a holder has
ConfigRef(c) == configs[c].HintFunctions

\* C7: NewConfig makes a map of its own, which starts as a copy of the
\* registry; NewConfig and its options change no other map, in particular
\* not the registry; no two Configs share a map, nor does one share the
\* registry's, so a write through one Config changes that Config's map only.
C7_FreshMapPerConfig ==
    [][/\ (cfgPc = "idle" /\ cfgPc' = "loop") =>
              /\ opt'.HintFunctions \notin DOMAIN maps
              /\ opt'.HintFunctions # NilRef
              /\ maps'[opt'.HintFunctions] = maps[RegistryRef]
       /\ NewConfigStep =>
              /\ maps'[RegistryRef] = maps[RegistryRef]
              /\ \A r \in DOMAIN maps \cap DOMAIN maps' :
                    r # opt.HintFunctions => maps'[r] = maps[r]
       /\ \A c1, c2 \in Holders :
              (c1 # c2 /\ ConfigRef(c1)' # NilRef) => ConfigRef(c1)' # ConfigRef(c2)'
       /\ \A c \in Holders :
              ConfigRef(c)' # NilRef =>
                  /\ ConfigRef(c)' # RegistryRef
                  /\ ConfigRef(c)' # opt'.HintFunctions
                  /\ ConfigRef(c)' \in DOMAIN maps'
       /\ opt'.HintFunctions # RegistryRef
       /\ \A c \in Holders, id \in HintIDs, f \in HintFns :
              WriteConfig(c, id, f) =>
                  \A r \in DOMAIN maps : r # ConfigRef(c) => maps'[r] = maps[r]]_vars

\* two Configs have been returned whose maps differ from each other and from
\* the registry, which is not empty
C7_Witness ==
    /\ \A c \in Holders : ConfigRef(c) # NilRef
    /\ maps[ConfigRef("c1")] # maps[ConfigRef("c2")]
    /\ \A c \in Holders : maps[ConfigRef(c)] # Registry
    /\ DOMAIN Registry # {}

\* C8: for a supplied hint whose id is present in the configuration,
\* WithHints keeps the whole map as it is and logs one duplicate-hint warning
\* for that id; for a hint whose id is absent it adds the hint's function
\* under the id, changes no other entry and logs nothing; it touches no other
\* map, nor the logger of the Config; and it returns no error: NewConfig goes
\* on with what the loop left.
C8_WithHintsKeeps ==
    [][/\ \A h \in Hints : WithHintsNext(h) =>
             LET before == maps[opt.HintFunctions]
                 after == maps'[opt.HintFunctions]
             IN
             /\ h.ID \in DOMAIN before =>
                    /\ after = before
                    /\ logged' = [logged EXCEPT ![h.ID] = @ + 1]
             /\ h.ID \notin DOMAIN before =>
                    /\ DOMAIN after = DOMAIN before \cup {h.ID}
                    /\ after[h.ID] = h.Fn
                    /\ \A id \in DOMAIN before : after[id] = before[id]
                    /\ logged' = logged
             /\ DOMAIN maps' = DOMAIN maps
             /\ \A r \in DOMAIN maps : r # opt.HintFunctions => maps'[r] = maps[r]
             /\ opt' = opt /\ configs' = configs
             /\ cfgErr' = NIL /\ cfgPc' = "hints"
       /\ WithHintsReturn =>
             /\ maps' = maps /\ opt' = opt /\ configs' = configs
             /\ cfgErr' = NIL /\ cfgPc' = "loop"]_vars

\* the first option of a NewConfig call is a WithHints that was given two
\* hints: one for an id the registry holds, for which the registry's function
\* was kept and a warning logged, and one for an id that was absent, which
\* was added with another function than the registered one
C8_Witness ==
    /\ cfgPc = "hints"
    /\ nApplied = 0
    /\ nHints = 2
    /\ \E id1, id2 \in HintIDs :
          /\ logged[id1] = 1
          /\ id1 \in DOMAIN Registry
          /\ maps[opt.HintFunctions][id1] = Registry[id1]
          /\ logged[id2] = 0
          /\ id2 \notin DOMAIN Registry
          /\ id2 \in DOMAIN maps[opt.HintFunctions]
          /\ maps[opt.HintFunctions][id2] # RegisteredFn

\* C9: OverrideHint(id, f) makes f the entry of id whatever was there,
\* changes no other entry, no other map and not the logger, logs nothing and
\* returns no error.
C9_OverrideHintSets ==
    [][\A o \in Options : (o.kind = "OverrideHint" /\ ApplyOption(o)) =>
          LET before == maps[opt.HintFunctions]
              after == maps'[opt.HintFunctions]
          IN
          /\ DOMAIN after = DOMAIN before \cup {o.id}
          /\ after[o.id] = o.f
          /\ \A id \in DOMAIN before : id # o.id => after[id] = before[id]
          /\ DOMAIN maps' = DOMAIN maps
          /\ \A r \in DOMAIN maps : r # opt.HintFunctions => maps'[r] = maps[r]
          /\ opt' = opt
          /\ logged' = NoWarnings
          /\ cfgErr' = NIL /\ cfgPc' = "loop" /\ configs' = configs]_vars

\* the Config under construction holds, for an id the registry has, another
\* function than the registry's, and a second entry equal to the registry's:
\* the registry does not change while NewConfig runs and WithHints keeps what
\* is present, so an OverrideHint has replaced the one entry and left the other
C9_Witness ==
    /\ cfgPc = "loop"
    /\ \E id, other \in DOMAIN Registry :
          /\ id # other
          /\ maps[opt.HintFunctions][id] # Registry[id]
          /\ maps[opt.HintFunctions][other] = Registry[other]

----------------------------------------------------------------------------
(* Properties of RegisterHints, checked under SpecReg *)

\* C10: registerHints is entered at most once, by one thread at a time, and
\* a RegisterHints call has returned only if registerHints was entered once
\* and ran to its end, so that every std hint is registered.
C10_RegisteredOnce ==
    /\ bodyRuns <= 1
    /\ bodyEnds <= bodyRuns
    /\ \A t1, t2 \in RegThreads :
          (rpc[t1] \in {"callf", "body"} /\ rpc[t2] \in {"callf", "body"}) => t1 = t2
    /\ onceDone = 1 => bodyEnds = 1
    /\ \A t \in RegThreads : rpc[t] = "returned" =>
          /\ bodyRuns = 1
          /\ bodyEnds = 1
          /\ \A i \in 1..Len(StdHints) : StdHints[i] \in DOMAIN Registry

\* one call ran registerHints, and two other calls have returned as well
C10_Witness ==
    /\ regCalls = 3
    /\ \A t \in RegThreads : rpc[t] = "returned"
    /\ bodyRuns = 1

----------------------------------------------------------------------------
(* Properties of the dispatch of package plonk, checked under SpecPlk *)

\* the curve of the package a concrete type belongs to
CurveOfType(t) ==
    CASE t \in {"*cs_bn254.SparseR1CS", "*cs_bn254.R1CS", "*kzg_bn254.SRS",
                "*plonk_bn254.ProvingKey", "*plonk_bn254.VerifyingKey",
                "*plonk_bn254.Proof"} -> "BN254"
      [] t = "*kzg_bls12381.SRS" -> "BLS12_381"
      [] OTHER -> "UNKNOWN"

\* the last call was a call of Setup, Prove or Verify whose first argument has
\* a type the switch has a case for
DispatchedCall ==
    \/ plkOp \in {"Setup", "Prove"} /\ plkArgs.first \in SparseR1CSCases
    \/ plkOp = "Verify" /\ plkArgs.first \in ProofCases

\* the last call returned what the curve-typed implementation returned
ReturnedDelegated ==
    /\ plkOut.kind = "return"
    /\ plkImpl.called
    /\ plkOut.val = plkImpl.val

\* C11 as stated: Setup, Prove and Verify return the result of the
\* implementation unchanged whenever the type of the first argument is
\* supported, and panic, returning nothing, whenever it is not.
C11_AsClaimed ==
    plkOp \in {"Setup", "Prove", "Verify"} =>
        IF DispatchedCall THEN ReturnedDelegated ELSE plkOut.kind = "panic"

\* C11, amended: for a bn254 first argument Setup, Prove and Verify call the
\* bn254 implementation and return its result unchanged when the SRS, the
\* proving key or the verifying key is of bn254 too, and panic in the type
\* assertion when it is not; Verify first returns ErrInvalidWitness, without
\* calling the implementation, when the vector of the public witness is not
\* an fr_bn254.Vector. For every other type of the first argument they
\* panic with the message of the default case and return nothing.
C11_Dispatch ==
    /\ plkOp \in {"Setup", "Prove"} =>
          IF plkArgs.first = "*cs_bn254.SparseR1CS"
          THEN IF plkArgs.second =
                    (IF plkOp = "Setup" THEN "*kzg_bn254.SRS"
                                        ELSE "*plonk_bn254.ProvingKey")
               THEN /\ ReturnedDelegated
                    /\ plkImpl.val \in (IF plkOp = "Setup" THEN SetupResults
                                                           ELSE ProveResults)
               ELSE /\ plkOut = Panics("interface conversion")
                    /\ ~plkImpl.called
          ELSE /\ plkOut = Panics("unrecognized SparseR1CS curve type")
               /\ ~plkImpl.called
    /\ plkOp = "Verify" =>
          IF plkArgs.first = "*plonk_bn254.Proof"
          THEN IF plkArgs.vector # "fr_bn254.Vector"
               THEN /\ plkOut = Returns(Values(NIL, NIL, NIL, NIL, "ErrInvalidWitness"))
                    /\ ~plkImpl.called
               ELSE IF plkArgs.second = "*plonk_bn254.VerifyingKey"
               THEN ReturnedDelegated /\ plkImpl.val \in VerifyResults
               ELSE /\ plkOut = Panics("interface conversion")
                    /\ ~plkImpl.called
          ELSE /\ plkOut = Panics("unrecognized proof type")
               /\ ~plkImpl.called

\* Verify was called with a bn254 proof and a public witness over another
\* field, and returned ErrInvalidWitness without calling the implementation
C11_Witness ==
    /\ plkOp = "Verify"
    /\ plkArgs.first = "*plonk_bn254.Proof"
    /\ plkArgs.vector = "fr_bls12_381.Vector"
    /\ plkOut.kind = "return"
    /\ plkOut.val.err = ErrInvalidWitness
    /\ ~plkImpl.called

\* the curves Setup and Prove, and Verify, have a case for
DispatchCurves == {CurveOfType(t) : t \in SparseR1CSCases \cup ProofCases}

\* C12: each constructor returns, for BN254, a pointer to a zero value of the
\* bn254 type of its kind, which is not nil and is of a type Setup, Prove and
\* Verify accept in that position; for every other curve id it panics. The
\* four accept the same curve ids, which are the curves the dispatch has a
\* case for.
C12_Constructors ==
    /\ plkOp \in {"NewCS", "NewProvingKey", "NewProof", "NewVerifyingKey"} =>
          LET id == plkArgs.curveID
              obj == plkOut.val.obj
          IN
          IF id = "BN254"
          THEN /\ plkOut.kind = "return"
               /\ obj # NIL
               /\ obj = (CASE plkOp = "NewCS" -> "&cs_bn254.SparseR1CS{}"
                           [] plkOp = "NewProvingKey" -> "&plonk_bn254.ProvingKey{}"
                           [] plkOp = "NewProof" -> "&plonk_bn254.Proof{}"
                           [] OTHER -> "&plonk_bn254.VerifyingKey{}")
               /\ CurveOfType(TypeOf(obj)) = id
               /\ plkOp = "NewCS" => TypeOf(obj) \in SparseR1CSCases
               /\ plkOp = "NewProof" => TypeOf(obj) \in ProofCases
               /\ plkOp = "NewProvingKey" =>
                     \A c \in SparseR1CSCases : TypeOf(obj) = AssertedPK(c)
               /\ plkOp = "NewVerifyingKey" =>
                     \A p \in ProofCases : TypeOf(obj) = AssertedVK(p)
               /\ id \in DispatchCurves
          ELSE /\ plkOut = Panics("not implemented")
               /\ id \notin DispatchCurves
    /\ NewCSCases = DispatchCurves
    /\ NewProvingKeyCases = DispatchCurves
    /\ NewProofCases = DispatchCurves
    /\ NewVerifyingKeyCases = DispatchCurves

\* NewProof(BN254) returned an empty bn254 proof after a constructor call for
\* which the process would have ended had the curve been another one
C12_Witness ==
    /\ plkOp = "NewProof"
    /\ plkArgs.curveID = "BN254"
    /\ plkOut = Returns(Values(NIL, NIL, NIL, "&plonk_bn254.Proof{}", NIL))
    /\ plkCalls = MaxPlkCalls - 1

----------------------------------------------------------------------------
(* Properties of Assert.compile, checked under SpecTst *)

\* C13: when compile is called for a curve, backend and circuit (type and
\* address) for which a call on the same Assert, or on an Assert Run made
\* from it or it was made from, returned a constraint system, it returns
\* that very object and no error, and the compiler is not run.
C13_CompileMemoized ==
    [][tCalls' = tCalls + 1 =>
          \A h \in tDone :
              (/\ h.root = tAsserts[tLast'.assert].root
               /\ h.args = tLast'.args) =>
                  /\ tLast'.ccs = h.ccs
                  /\ tLast'.err = NoError
                  /\ ~tLast'.panic
                  /\ tLast'.runs = 0
                  /\ tRuns' = tRuns
                  /\ tNext' = tNext]_vars

\* a compile on the Assert of a subtest returned, without a run of the
\* compiler, the object a compile on its parent had compiled and returned
C13_Witness ==
    /\ tCalls = 2
    /\ tRuns = 2
    /\ tLast.assert = 2
    /\ tAsserts[2].root = 1
    /\ tLast.hit
    /\ \E h \in tDone :
          /\ h.assert = 1
          /\ h.args = tLast.args
          /\ h.ccs = tLast.ccs

\* the last call of compile found no entry for its key, for a backend compile
\* has a builder for
CacheMiss ==
    /\ tLast.assert # NoAssert
    /\ tLast.args.circuit.ptr
    /\ ~tLast.hit
    /\ tLast.args.backendID \in {GROTH16, PLONK, PLONKFRI}

\* C14: on a cache miss, an error of the first compilation is returned as it
\* is and is not ErrCompilationNotDeterministic; otherwise the circuit is
\* compiled a second time, and when the two systems differ in content
\* compile returns ErrCompilationNotDeterministic and no system; when they
\* are equal it returns the first and no error.
C14_DeterminismCheck ==
    CacheMiss =>
        IF tLast.first = CompileError
        THEN /\ tLast.runs = 1
             /\ tLast.err = ErrorOf(CompileError)
             /\ ~ErrorIs(tLast.err, ErrCompilationNotDeterministic)
             /\ tLast.ccs = NilCS
        ELSE /\ tLast.runs = 2
             /\ tLast.first \in Shapes
             /\ (tLast.second \in Shapes /\ tLast.second # tLast.first) =>
                    /\ tLast.err = ErrorOf(ErrCompilationNotDeterministic)
                    /\ tLast.ccs = NilCS
             /\ tLast.second = tLast.first =>
                    /\ tLast.err = NoError
                    /\ tLast.ccs.shape = tLast.first

\* after a call that ended with the error of its first compilation, a call
\* compiled the circuit twice, got two different systems and returned
\* ErrCompilationNotDeterministic; compile has cached nothing
C14_Witness ==
    /\ tCalls = 2
    /\ tRuns = 3
    /\ CacheMiss
    /\ tLast.first = "s1" /\ tLast.second = "s2"
    /\ tLast.err = ErrorOf(ErrCompilationNotDeterministic)
    /\ \A r \in DOMAIN tCompiled : tCompiled[r] = EmptyMap

----------------------------------------------------------------------------
(* Properties of the helpers of package test *)

\* the last call of fuzzer got one nil and one error from its two evaluations
LastMismatched == (fLast.vars = "ok") # (fLast.consts = "ok")

StagesRun(i) == [k \in 1..Len(pTrace[i]) |-> pTrace[i][k].stage]
RunsOf(i, stage) == {k \in 1..Len(pTrace[i]) : pTrace[i][k].stage = stage}

\* the subtest of pair i ended in failure: by FailNow, or by the panic of
\* lazySchema that ends the whole test binary
SubFailed(i) == pPc[i] \in {"failed", "panicked"}

\* C16 as claimed: for every pair, ProverFailed fails the subtest if the
\* reference evaluator accepts the invalid assignment or if solving the
\* invalid witness with the compiled constraint system succeeds, and the
\* subtest passes only when both return an error.
C16_AsClaimed ==
    pTest = "ProverFailed" =>
        \A i \in DOMAIN pPc :
            /\ (\E k \in RunsOf(i, "IsSolved") : pTrace[i][k].res = "ok")
                   => SubFailed(i)
            /\ (\E k \in RunsOf(i, "ccs.IsSolved") : pTrace[i][k].full = "ok")
                   => SubFailed(i)
            /\ pPc[i] = "passed" =>
                   /\ \E k \in RunsOf(i, "IsSolved") : pTrace[i][k].res = "err"
                   /\ \E k \in RunsOf(i, "ccs.IsSolved") : pTrace[i][k].full = "err"

\* the stages of ProverSucceeded for a backend, in the order claimed
StageOrder(b) ==
    IF b = PLONK
    THEN <<"compile", "IsSolved", "NewKZGSRS", "Setup", "Prove", "Verify">>
    ELSE <<"compile", "IsSolved", "Setup", "Prove", "Verify">>

\* C17: for every pair, the subtest of ProverSucceeded runs its stages in the
\* order compile, reference evaluation, (for PLONK) NewKZGSRS, Setup, Prove,
\* Verify; a stage runs only if every stage before it returned no error; the
\* first error fails the subtest; the subtest passes only when all stages ran.
C17_StageOrder ==
    pTest = "ProverSucceeded" =>
        \A i \in DOMAIN pPc :
            LET order == StageOrder(pBackends[i])
                n == Len(pTrace[i])
            IN
            /\ n <= Len(order)
            /\ StagesRun(i) = SubSeq(order, 1, n)
            /\ \A k \in 1..(n - 1) : pTrace[i][k].res = "ok"
            /\ (n > 0 /\ pTrace[i][n].res # "ok") => SubFailed(i)
            /\ SubFailed(i) => (n > 0 /\ pTrace[i][n].res # "ok")
            /\ pPc[i] = "passed" => n = Len(order)

\* ProverSucceeded with groth16, plonk and plonkfri: the plonk subtest ran
\* its six stages and passed, the groth16 subtest failed at Prove and ran no
\* Verify
C17_Witness ==
    /\ pTest = "ProverSucceeded"
    /\ pBackends = <<GROTH16, PLONK, PLONKFRI>>
    /\ pPc[2] = "passed"
    /\ StagesRun(2) = StageOrder(PLONK)
    /\ pPc[1] = "failed"
    /\ StagesRun(1) = <<"compile", "IsSolved", "Setup", "Prove">>
    /\ pTrace[1][4].res = "err"

\* C20 as claimed: a subtest of ProverFailed that compiled the circuit and in
\* which the reference evaluator rejected the invalid witness runs Setup,
\* Prove and Verify on it, and passes only if one of them failed.
C20_AsClaimed ==
    pTest = "ProverFailed" =>
        \A i \in DOMAIN pPc :
            pPc[i] = "passed" =>
                /\ RunsOf(i, "Setup") # {}
                /\ \E k \in RunsOf(i, "Setup") \cup RunsOf(i, "Prove") \cup RunsOf(i, "Verify") :
                       pTrace[i][k].res = "err"

----------------------------------------------------------------------------
(* Properties of eddsa.Verify *)

\* the cofactor as a number, when it fits in 64 bits
SmallCofactor == Uint64(edCofactor)

\* C18: when the cofactor fits in 64 bits, Verify returns nil after asserting
\* X = 0 and Y = 1 of the difference point doubled exactly twice for cofactor
\* 4, exactly three times for cofactor 8, and not at all for any other
\* cofactor, for which it logs a warning and nothing else.
C18_CofactorClearing ==
    (edPc = "returned" /\ ~edCofactor.neg /\ Len(edCofactor.abs) <= 1) =>
        LET cleared ==
                IF SmallCofactor = 4 THEN EdAdd(EdAdd(edDiff, edDiff), EdAdd(edDiff, edDiff))
                ELSE IF SmallCofactor = 8
                THEN LET four == EdAdd(EdAdd(edDiff, edDiff), EdAdd(edDiff, edDiff))
                     IN EdAdd(four, four)
                ELSE edDiff
        IN
        /\ edDoubles = IF SmallCofactor = 4 THEN 2 ELSE IF SmallCofactor = 8 THEN 3 ELSE 0
        /\ edQ = cleared
        /\ edLog = IF SmallCofactor \in {4, 8} THEN <<>>
                   ELSE <<LogLine("warn", "curve cofactor is not implemented")>>
        /\ edChecks = <<AssertIsEqual(cleared.X, 0), AssertIsEqual(cleared.Y, 1)>>
        /\ edRet = ReturnsNil

\* Verify returned for cofactor 4 with a difference point of order 4, which
\* two doublings take to the identity and one does not
C18_Witness ==
    /\ edPc = "returned"
    /\ edCofactor = BigInt(FALSE, <<4>>)
    /\ edDoubles = 2
    /\ edDiff # Point(0, 1)
    /\ EdAdd(edDiff, edDiff) # Point(0, 1)
    /\ edQ = Point(0, 1)
    /\ edChecks = <<AssertIsEqual(0, 0), AssertIsEqual(1, 1)>>
    /\ edRet = ReturnsNil

\* the cofactor does not fit in 64 bits
Malformed == edCofactor.neg \/ Len(edCofactor.abs) > 1

\* C19 as claimed: with a malformed cofactor Verify aborts: it does not get
\* to return an error value.
C19_AsClaimed == Malformed => edRet = NotReturned

\* C19, amended: with a malformed cofactor Verify does not abort: it logs
\* the error "invalid cofactor" and returns it to its caller, having doubled
\* nothing and asserted nothing about the difference point.
C19_MalformedCofactorReturned ==
    (Malformed /\ edPc \notin {"idle", "cofactor"}) =>
        /\ edPc = "returned"
        /\ edRet = ErrInvalidCofactor
        /\ edLog = <<LogLine("error", ErrInvalidCofactor)>>
        /\ edDoubles = 0
        /\ edQ = edDiff
        /\ edChecks = <<>>

\* Verify returned for the cofactor 2^64 + 4, whose low word is 4
C19_Witness ==
    /\ edPc = "returned"
    /\ edCofactor = BigInt(FALSE, <<4, 1>>)
    /\ edRet = ErrInvalidCofactor

\* the doubling formula agrees with the addition law on every point
DoubleIsAdd == \A pt \in EdPoints : EdDouble(pt) = EdAdd(pt, pt) /\ OnCurve(EdDouble(pt))

----------------------------------------------------------------------------
(* Further properties of Assert.compile, checked under SpecTst *)

\* C21 as claimed: two calls of compile on Asserts sharing a cache whose
\* curve, backend, circuit type or circuit address differ have different
\* keys, and neither is returned the constraint system of the other.
C21_AsClaimed ==
    \A d1 \in tDone, d2 \in tDone :
        (d1.root = d2.root /\ d1.args # d2.args) =>
            /\ Key(d1.args) # Key(d2.args)
            /\ d1.ccs # d2.ccs


----------------------------------------------------------------------------
(* Properties of compile called by two goroutines, checked under SpecGo *)

\* C22: the cache is not synchronized.  While the test binary runs, a
\* goroutine that has its key begins the read of the map, one that missed
\* the key runs the compiler, and one that has compiled begins the write of
\* the map, whatever the other goroutine is doing: nothing makes it wait
\* for a goroutine that is inside an access of the same map or is compiling
\* the same key.
C22_NotSynchronized ==
    \A g \in Goroutines :
        gFatal = GoRunning =>
            /\ gPc[g] = "key" => ENABLED BeginLookup(g)
            /\ gPc[g] = "build" => ENABLED (\E o \in CompilerOutcomes : Build(g, o))
            /\ gPc[g] = "built" => ENABLED BeginStore(g)

\* both goroutines, on Asserts sharing one map, missed the same key, both
\* compiled it, and both are inside the write of the map at the same time
C22_Witness ==
    /\ GoAssert("g1").compiled = GoAssert("g2").compiled
    /\ Key(gArgs["g1"]) = Key(gArgs["g2"])
    /\ \A g \in Goroutines :
          /\ gPc[g] \in InMapWrite
          /\ gRuns[g] = 2
          /\ gRaced[g]
    /\ gHeap[GoAssert("g1").compiled] = EmptyMap


----------------------------------------------------------------------------
(* Further properties of ProverSucceeded, ProverFailed and Fuzz, checked   *)
(* under SpecPrv                                                           *)

\* the positions of a subtest after t.Parallel() has returned
ParallelPart == {"NewKZGSRS", "Setup", "Prove", "Verify", "ccs.IsSolved"}

\* a subtest of the loop, or of Fuzz, can make a step that calls compile
LoopAccess(i) ==
    ENABLED (\E o \in HelperCompilerOutcomes, schema \in StageOutcomes :
                SubCompile(i, o, schema))
FuzzAccess(i) ==
    \/ ENABLED (\E o \in HelperCompilerOutcomes : FuzzCompile(i, o))
    \/ ENABLED (\E ev \in StageOutcomes, ec \in StageOutcomes, cs \in StageOutcomes,
                   wj \in StageOutcomes, o \in HelperCompilerOutcomes :
                   Fuzzer(i, ev, ec, cs, wj, o))

\* C23: in ProverSucceeded, ProverFailed and Fuzz a subtest accesses the
\* cache only before it calls t.Parallel(); a subtest is past t.Parallel()
\* only when the test function has returned, and then no subtest can access
\* the cache; and at no time can two different subtests access the cache.
C23_AccessesNeverOverlap ==
    LET loop == {i \in DOMAIN pPc : LoopAccess(i)}
        fuzz == {i \in DOMAIN fPc : FuzzAccess(i)}
    IN
    /\ \A i \in loop : pPc[i] \notin ParallelPart \cup {"parallel", "passed", "failed"}
    /\ \A i \in DOMAIN pPc : pPc[i] \in ParallelPart => pParent = "returned"
    /\ pParent = "returned" => loop = {} /\ fuzz = {}
    /\ Cardinality(loop) + Cardinality(fuzz) <= 1

\* two subtests of ProverSucceeded run their parallel parts at the same
\* time, after the fuzzing ran, with the entries each of them and the
\* subtests of Fuzz looked up in the cache
C23_Witness ==
    /\ pTest = "ProverSucceeded"
    /\ pFuzzing
    /\ pParent = "returned"
    /\ Len(pPc) = 3
    /\ pPc[1] = "Prove"
    /\ pPc[2] = "Setup"
    /\ \A i \in DOMAIN fPc : fPc[i] = "passed"
    /\ \A i \in DOMAIN pPc :
          Key(CompileArgs(pCircuit, BN254, pBackends[i]))
              \in DOMAIN tCompiled[tAsserts[pAssert].compiled]
    /\ tLast.hit


----------------------------------------------------------------------------
(* Further properties of the SRS cache, checked under SpecSRS *)

\* the threads inside the check-generate-store section of getCachedSRS
InSection == {t \in Threads : pc[t] \in InCritical}

\* C24: at most one thread at a time is inside the check-generate-store
\* section of getCachedSRS, whatever the fields asked for; a thread that
\* asks while another is inside, also for another field, cannot enter and
\* stays at lock.Lock().
C24_OneSectionForAllFields ==
    /\ Cardinality(InSection) <= 1
    /\ \A t \in Threads :
          (pc[t] = "lock" /\ InSection \ {t} # {}) => ~ENABLED Lock(t)

\* a thread is generating the SRS of one field while a thread asking for
\* another field waits at lock.Lock()
C24_Witness ==
    \E t1, t2 \in Threads :
        /\ pc[t1] = "gen" /\ pc[t2] = "lock"
        /\ ccs[t1].field # ccs[t2].field
        /\ ~ENABLED Lock(t2)


----------------------------------------------------------------------------
(* Further properties of NewConfig, checked under SpecCfg *)

\* the function a map holds for an id, NIL when it holds none
FnOf(m, id) == IF id \in DOMAIN m THEN m[id] ELSE NIL

\* the function the options applied so far leave for an id: that of the last
\* OverrideHint for it; else the registry's; else that of the first hint
\* with that id given to a WithHints
Resolved(id) ==
    IF id \in DOMAIN overridden THEN overridden[id]
    ELSE IF id \in DOMAIN Registry THEN Registry[id]
    ELSE FnOf(hinted, id)

\* C25: NewConfig applies its options from left to right, and when it
\* returns without error the Config it returns holds for every hint id the
\* function of the last OverrideHint for that id if there was one, else the
\* function of the registry if the id is registered, else the function of
\* the first hint with that id given to a WithHints, else none.  The same
\* holds of opt after every option applied, so a WithHints that follows an
\* OverrideHint does not undo it.
C25_FinalHintFunction ==
    [][/\ (cfgPc \in {"loop", "hints"} /\ cfgPc' \in {"loop", "hints"}) =>
             \A id \in HintIDs : FnOf(maps'[opt'.HintFunctions], id) = Resolved(id)'
       /\ (cfgPc = "loop" /\ cfgPc' = "idle" /\ cfgErr' = NIL) =>
             /\ configs'[caller].HintFunctions = opt.HintFunctions
             /\ \A id \in HintIDs :
                   FnOf(maps'[configs'[caller].HintFunctions], id) = Resolved(id)
       /\ (cfgPc \in {"loop", "hints"} /\ nApplied' # nApplied /\ cfgPc' # "idle") =>
             nApplied' = nApplied + 1
      ]_vars

\* an OverrideHint of a registered id was followed by a WithHints with a
\* hint of the same id and another function, and by a hint of an id neither
\* registered nor overridden: opt holds the function of the override, and
\* for the other id the function of the hint
C25_Witness ==
    /\ cfgPc = "loop"
    /\ nApplied = 2
    /\ \E id \in HintIDs :
          /\ id \in DOMAIN overridden /\ id \in DOMAIN Registry /\ id \in DOMAIN hinted
          /\ overridden[id] # Registry[id]
          /\ hinted[id] # overridden[id]
          /\ FnOf(maps[opt.HintFunctions], id) = overridden[id]
    /\ \E id \in HintIDs :
          /\ id \notin DOMAIN overridden /\ id \notin DOMAIN Registry
          /\ id \in DOMAIN hinted
          /\ FnOf(maps[opt.HintFunctions], id) = hinted[id]


\* C26: when an option returns an error NewConfig returns at that option:
\* the step that applies it ends the call, with the error of the option
\* itself and the empty Config (nil map, zero logger) for the caller, and no
\* option is applied after it; a failing option can be applied at any point
\* of the loop, so the call never ends in another way because of it.  A call
\* that returns an error went through that step.
C26_OptionErrorReturned ==
    [][/\ (cfgPc = "loop" /\ cfgErr' # NIL) =>
             /\ cfgErr' = ErrOption
             /\ configs'[caller] = ZeroConfig
             /\ configs'[caller].HintFunctions = NilRef
             /\ \A c \in Holders \ {caller} : configs'[c] = configs[c]
             /\ cfgPc' = "idle"
             /\ opt.HintFunctions \notin DOMAIN maps'
             /\ ~(ENABLED (\E o \in Options : ApplyOption(o)))'
             /\ ~(ENABLED (\E h \in Hints : WithHintsNext(h)))'
       /\ (cfgPc = "loop" /\ nApplied < MaxOpts) => ENABLED ApplyOption(FailingOption)
       /\ (cfgErr = NIL /\ cfgErr' # NIL) => cfgPc = "loop"
      ]_vars

\* NewConfig returned the error of an option it applied after an
\* OverrideHint: the caller holds the empty Config, and the map the call
\* had made, override included, is gone
C26_Witness ==
    /\ cfgPc = "idle"
    /\ cfgErr = ErrOption
    /\ overridden # EmptyMap
    /\ \E c \in Holders : configs[c] = ZeroConfig
    /\ \A r \in DOMAIN maps :
          r = RegistryRef \/ \E d \in Holders : configs[d].HintFunctions = r


----------------------------------------------------------------------------
(* The cache of Assert.compile and its errors, checked under SpecTst *)

\* the map the Assert of a call holds, and the key of the call
MapOf(call) == tAsserts[call.assert].compiled
Failed(call) == call.assert # NoAssert /\ call.err # NoError

\* C27: a step of compile writes the cache only by adding, under the key of
\* the call, the system it returns, and only when it ran the compiler twice,
\* both runs gave a system and the two were equal; entries are never changed
\* or removed.  A call that returns an error (circuit not a pointer, failed
\* compilation, differing compilations) leaves every map as it was, and the
\* next call with the same key on the same map does not find an entry: it
\* runs the compiler again.
C27_OnlyDeterministicCached ==
    [][tCalls' = tCalls + 1 =>
         LET call == tLast'
             ref == tAsserts[call.assert].compiled
         IN
         /\ \A r \in DOMAIN tCompiled :
               /\ DOMAIN tCompiled[r] \subseteq DOMAIN tCompiled'[r]
               /\ \A k \in DOMAIN tCompiled[r] : tCompiled'[r][k] = tCompiled[r][k]
               /\ r # ref => tCompiled'[r] = tCompiled[r]
         /\ (tCompiled' # tCompiled) =>
               /\ call.err = NoError /\ ~call.panic /\ ~call.hit
               /\ call.runs = 2
               /\ call.first \in Shapes /\ call.second = call.first
               /\ DOMAIN tCompiled'[ref] = DOMAIN tCompiled[ref] \cup {Key(call.args)}
               /\ tCompiled'[ref][Key(call.args)] = call.ccs
               /\ call.ccs.shape = call.first
         /\ (call.err # NoError \/ call.panic) => tCompiled' = tCompiled
         /\ (call.err # NoError /\ call.args.circuit.ptr) =>
               Key(call.args) \notin DOMAIN tCompiled'[ref]
         /\ (/\ Failed(tLast) /\ tLast.args.circuit.ptr /\ call.args.circuit.ptr
             /\ MapOf(tLast) = ref
             /\ Key(tLast.args) = Key(call.args)) =>
               ~call.hit /\ (call.panic \/ call.runs >= 1)
      ]_vars

\* a call of compile found the two compilations to differ and returned
\* ErrCompilationNotDeterministic; the next call, with the same key on the
\* same map, compiled twice again, and its system is the only entry
C27_Witness ==
    /\ tCalls = 2
    /\ tRuns = 4
    /\ tNext = 5
    /\ tLast.err = NoError /\ ~tLast.hit /\ tLast.runs = 2
    /\ \A r \in DOMAIN tCompiled :
          DOMAIN tCompiled[r] \subseteq {Key(tLast.args)}
    /\ tCompiled[MapOf(tLast)][Key(tLast.args)] = tLast.ccs
    /\ tLast.ccs.id = 3
    /\ [map |-> MapOf(tLast), key |-> Key(tLast.args)] \in tFailed


----------------------------------------------------------------------------
(* A further property of plonk.Verify, checked under SpecPlk *)

\* C28: when its proof is of a supported type and the vector of the public
\* witness is over another field, Verify returns witness.ErrInvalidWitness
\* as an error value: it does not panic, whatever the verifying key is, and
\* does not call the verifier of the curve.  When the proof is of an
\* unsupported type it panics and returns nothing.
C28_InvalidWitnessIsAnError ==
    plkOp = "Verify" =>
        /\ (/\ plkArgs.first \in ProofCases
            /\ plkArgs.vector # AssertedVector(plkArgs.first)) =>
              /\ plkOut.kind = "return"
              /\ plkOut.val.err = ErrInvalidWitness
              /\ ~plkImpl.called
        /\ plkArgs.first \notin ProofCases =>
              /\ plkOut.kind = "panic"
              /\ plkOut.val.err = NIL
              /\ ~plkImpl.called

\* Verify was given a bn254 proof, a public witness over another field and
\* a verifying key of another curve as well: it returned ErrInvalidWitness
\* before the type of the verifying key was asserted
C28_Witness ==
    /\ plkOp = "Verify"
    /\ plkArgs.first \in ProofCases
    /\ plkArgs.vector # AssertedVector(plkArgs.first)
    /\ plkArgs.second # AssertedVK(plkArgs.first)
    /\ plkOut = Returns(Values(NIL, NIL, NIL, NIL, ErrInvalidWitness))
    /\ ~plkImpl.called


----------------------------------------------------------------------------
(* The cross-check of fuzzer against the compiled system, under SpecPrv *)

\* C29: for every sample on which the evaluation with variables and the
\* evaluation with constants agree, fuzzer takes the constraint system of
\* the subtest from the cache and solves the sample with it.  When both
\* evaluations accepted the sample the subtest fails unless the system
\* solves it; when both rejected it the subtest fails unless solving returns
\* an error; otherwise the subtest goes on to its next sample or passes.
C29_FuzzerCrossCheck ==
    [][(fSamples' = fSamples + 1 /\ ~LastMismatched') =>
         LET agreed == fLast'.vars
             solved == fLast'.cs
             goesOn == IF fSamples' = NbSamples(fCount) THEN "passed" ELSE "fuzzer"
         IN
         /\ fLast'.consts = agreed
         /\ solved \in StageOutcomes
         /\ tLast'.hit
         /\ tLast'.args = CompileArgs(pCircuit, BN254, pBackends[fIdx])
         /\ tLast'.ccs = tCompiled[tAsserts[pAssert].compiled][Key(tLast'.args)]
         /\ fPc'[fIdx] = (IF (agreed = "ok") = (solved = "ok") THEN goesOn ELSE "failed")
         /\ fPc'[fIdx] = "failed" => fIdx' = fIdx + 1
      ]_vars

\* a subtest of Fuzz passed the cross-check of a sample both evaluations
\* accepted, and failed at the next sample, which both evaluations rejected
\* and the compiled system solved
C29_Witness ==
    /\ pTest = "Fuzz"
    /\ pParent = "fuzz"
    /\ fSamples = 2
    /\ fLast = [vars |-> "err", consts |-> "err", cs |-> "ok"]
    /\ fPc[1] = "failed"
    /\ fIdx = 2
    /\ fLog = <<>>
    /\ tLast.hit

====
